---- MODULE Spec2Model ----
(***************************************************************************)
(* Stealth session and transaction engine of the Vinted bridge             *)
(* (python-bridge/vinted_client.py, server.py, image_mutator.py).          *)
(*                                                                         *)
(* Spec      the session pool and the client operations, one call at a time *)
(* SpecConc  two tasks calling _get_session / reset_session concurrently   *)
(* SpecRelist  the relist transaction (upload, delete, dwell, create)      *)
(* SpecRelistLog  the same, the caller comparing successive outcomes       *)
(*                                                                         *)
(* Python's None is the string "None" (proxy, mode), the session           *)
(* NoSession (a pool slot holding nothing) and the status 0.               *)
(***************************************************************************)
EXTENDS Integers, Sequences, FiniteSets, TLC

\* ------------------------------------------------------------------ bounds
\* sessions constructed in one run (requests.Session objects)
MaxHandles == 2
\* images handed to one relist transaction
MaxImages == 2
\* pool calls each concurrent task makes
MaxCalls == 2

\* ------------------------------------------------------------------ routes
NoProxy == "None"
Proxies == {NoProxy, "p1"}
NoMode == "None"
Modes == {NoMode, "PROXY", "DIRECT"}
\* the pool key (proxy, transport_mode)
Routes == Proxies \X Modes

IMPOSTOR == "chrome"
DIRECT_IMPOSTOR == "chrome110"

\* a pool slot, or a variable, holding no session
NoSession == [id |-> 0, imp |-> "none"]
\* requests.Session(impersonate=imp): the n-th session object constructed
Session(n, imp) == [id |-> n, imp |-> imp]

\* imp = DIRECT_IMPOSTOR if transport_mode == "DIRECT" else IMPOSTOR
ImpFor(mode) == IF mode = "DIRECT" THEN DIRECT_IMPOSTOR ELSE IMPOSTOR

\* key = (proxy, transport_mode)
PoolKey(proxy, mode) == <<proxy, mode>>

\* mutants of _get_session
GetSession_NoCache(pool, n, proxy, mode) ==
    LET key == PoolKey(proxy, mode)
        s == Session(n + 1, ImpFor(mode))
    IN [pool |-> [pool EXCEPT ![key] = s], created |-> n + 1, ret |-> s]

GetSession_OneTarget(pool, n, proxy, mode) ==
    LET key == PoolKey(proxy, mode)
        miss == pool[key] = NoSession
        pool1 == IF miss THEN [pool EXCEPT ![key] = Session(n + 1, IMPOSTOR)] ELSE pool
    IN [pool |-> pool1, created |-> IF miss THEN n + 1 ELSE n, ret |-> pool1[key]]

GetSession_KeyByProxy(pool, n, proxy, mode) ==
    LET key == PoolKey(proxy, NoMode)
        miss == pool[key] = NoSession
        pool1 == IF miss THEN [pool EXCEPT ![key] = Session(n + 1, ImpFor(mode))] ELSE pool
    IN [pool |-> pool1, created |-> IF miss THEN n + 1 ELSE n, ret |-> pool1[key]]

\* _get_session(proxy, transport_mode), run without interruption: the pool
\* after the call, the number of sessions constructed so far, the session returned
GetSession(pool, n, proxy, mode) ==
    LET key == PoolKey(proxy, mode)
        miss == pool[key] = NoSession
        pool1 == IF miss THEN [pool EXCEPT ![key] = Session(n + 1, ImpFor(mode))] ELSE pool
    IN [pool |-> pool1, created |-> IF miss THEN n + 1 ELSE n, ret |-> pool1[key]]

\* mutants of reset_session
ResetSession_Keep(pool, proxy, mode) == pool

ResetSession_Proxy(pool, proxy, mode) ==
    [k \in DOMAIN pool |-> IF k[1] = proxy THEN NoSession ELSE pool[k]]

\* reset_session(proxy, transport_mode): _session_pool.pop(key, None)
ResetSession(pool, proxy, mode) ==
    [pool EXCEPT ![PoolKey(proxy, mode)] = NoSession]

\* mutant of the session choice: the caller's session is ignored
SessionFor_AlwaysPool(given, pool, n, proxy, mode) ==
    GetSession(pool, n, proxy, mode)

\* upload_photo, create_listing, delete_listing:
\* if session is None: session = _get_session(proxy, transport_mode)
SessionFor(given, pool, n, proxy, mode) ==
    IF given = NoSession
    THEN GetSession(pool, n, proxy, mode)
    ELSE [pool |-> pool, created |-> n, ret |-> given]

\* ------------------------------------------------------------------ responses
\* how the request ended: a response, requests.errors.RequestsError, an
\* exception whose message names cloudflare, any other exception
Nets == {"ok", "requests_error", "cf_error", "other_error"}
Statuses == {200, 201, 304, 401, 403, 404, 429, 500}
\* whether the content-type header contains "text/html"
CTypes == {"text/html", "application/json"}
\* response bodies, by what the client looks for in them
\*   json_with_id    a JSON object with a truthy "id"
\*   json_no_id      a JSON object without "id"
\*   challenge_page  markup, "datadome" and "captcha" within the first 500 characters
\*   item_page       a markup document ("<!doctype html>") carrying the item, no vendor token
\*   late_challenge  500 characters of filler, then "datadome" and "captcha" before 2000
\*   no_item_page    a markup document like item_page, well formed, the item not in it
\*   text            neither JSON nor markup
Bodies == {"json_with_id", "json_no_id", "challenge_page", "item_page",
           "late_challenge", "no_item_page", "text"}

Responses ==
    [net : {"ok"}, status : Statuses, ctype : CTypes, body : Bodies]
    \cup [net : Nets \ {"ok"}, status : {0}, ctype : {"application/json"}, body : {"text"}]

\* "datadome" in body_start or "<!doctype" in body_start or "<html" in body_start,
\* body_start = resp.text[:500].lower()
Head500HasMarker(body) == body \in {"challenge_page", "item_page", "no_item_page"}
\* "datadome" in body_lower and "captcha" in body_lower, body_lower = html[:2000].lower()
Head2000DatadomeCaptcha(body) == body \in {"challenge_page", "late_challenge"}
\* resp.json() succeeds
IsJson(body) == body \in {"json_with_id", "json_no_id"}
\* _extract_item_from_html(html, item_id) finds the item
ItemExtractable(body) == body = "item_page"

\* the outcome of one client call: the code (OK, or VintedError.code), the
\* VintedError.status_code (0 for None), the pool key reset on the way (reset
\* says whether one was), and whether resp.json() was called (decoded)
Outcome(code, status, reset, key) ==
    [code |-> code, status |-> status, reset |-> reset, key |-> key, decoded |-> FALSE]
NoKey == PoolKey(NoProxy, NoMode)
Ok == Outcome("OK", 0, FALSE, NoKey)
Err(code, status) == Outcome(code, status, FALSE, NoKey)

\* mutant of _detect_challenge: only the vendor token counts as a marker
DetectChallenge_VendorOnly(resp) ==
    resp.ctype = "text/html" /\ resp.body = "challenge_page"

\* _detect_challenge(resp, proxy, transport_mode): whether it raises
DetectChallenge(resp) ==
    resp.ctype = "text/html" /\ Head500HasMarker(resp.body)

\* the error _detect_challenge raises, after reset_session(proxy, transport_mode)
ChallengeOutcome(proxy, mode) ==
    Outcome("DATADOME_CHALLENGE", 403, TRUE, PoolKey(proxy, mode))

\* try: return resp.json() / except: PARSE_ERROR
JsonOutcome(resp) ==
    [(IF IsJson(resp.body) THEN Ok ELSE Err("PARSE_ERROR", 0)) EXCEPT !.decoded = TRUE]

\* _handle_response(resp, allow_statuses, proxy); it calls
\* _detect_challenge(resp, proxy), whose transport_mode defaults to None
HandleResponse(resp, allow, proxy) ==
    IF resp.status = 401 THEN Err("SESSION_EXPIRED", 401)
    ELSE IF resp.status = 403 THEN Err("FORBIDDEN", 403)
    ELSE IF resp.status = 429 THEN Err("RATE_LIMITED", 429)
    ELSE IF resp.status \notin allow THEN Err("HTTP_ERROR", resp.status)
    ELSE IF DetectChallenge(resp) THEN ChallengeOutcome(proxy, NoMode)
    ELSE JsonOutcome(resp)

\* except requests.errors.RequestsError / except Exception around the request
TransportOutcome(resp, cfAware) ==
    IF resp.net = "requests_error" THEN Err("REQUEST_FAILED", 0)
    ELSE IF resp.net = "cf_error" /\ cfAware THEN Err("CF_CHALLENGE", 0)
    ELSE Err("UNKNOWN", 0)

\* ------------------------------------------------------------------ client operations
\* search, checkout_build, checkout_put: the status ladder written out in
\* the function, then _detect_challenge(resp, proxy, transport_mode)
LadderOutcome(resp, allow, proxy, mode) ==
    IF resp.net # "ok" THEN TransportOutcome(resp, TRUE)
    ELSE IF resp.status = 401 THEN Err("SESSION_EXPIRED", 401)
    ELSE IF resp.status = 403 THEN Err("FORBIDDEN", 403)
    ELSE IF resp.status = 429 THEN Err("RATE_LIMITED", 429)
    ELSE IF resp.status \notin allow THEN Err("HTTP_ERROR", resp.status)
    ELSE IF DetectChallenge(resp) THEN ChallengeOutcome(proxy, mode)
    ELSE JsonOutcome(resp)

\* nearby_pickup_points: only 401 is told apart from the other statuses
NearbyOutcome(resp, proxy, mode) ==
    IF resp.net # "ok" THEN TransportOutcome(resp, FALSE)
    ELSE IF resp.status = 401 THEN Err("SESSION_EXPIRED", 401)
    ELSE IF resp.status # 200 THEN Err("HTTP_ERROR", resp.status)
    ELSE IF DetectChallenge(resp) THEN ChallengeOutcome(proxy, mode)
    ELSE JsonOutcome(resp)

\* fetch_item_detail: the page is markup, so the challenge test is its own
ItemDetailOutcome(resp, proxy, mode) ==
    IF resp.net # "ok" THEN TransportOutcome(resp, FALSE)
    ELSE IF resp.status = 429 THEN Err("RATE_LIMITED", 429)
    ELSE IF resp.status = 403 THEN Err("FORBIDDEN", 403)
    ELSE IF resp.status = 404 THEN Err("NOT_FOUND", 404)
    ELSE IF resp.status # 200 THEN Err("HTTP_ERROR", resp.status)
    ELSE IF Head2000DatadomeCaptcha(resp.body) THEN ChallengeOutcome(proxy, mode)
    ELSE IF ~ItemExtractable(resp.body) THEN Err("PARSE_ERROR", 0)
    ELSE Ok

\* the operations that end in _handle_response(resp, allow_statuses, proxy=proxy)
DelegatingOutcome(resp, allow, proxy) ==
    IF resp.net # "ok" THEN TransportOutcome(resp, FALSE)
    ELSE HandleResponse(resp, allow, proxy)

\* the client operations that take their session from the pool
Ops == {"search", "checkout_build", "checkout_put", "nearby_pickup_points",
        "fetch_item_detail", "fetch_wardrobe", "fetch_ontology_models",
        "hide_listing", "upload_photo"}

\* allow_statuses of an operation
AllowStatuses(op) ==
    CASE op \in {"search", "checkout_put", "hide_listing"} -> {200}
      [] op \in {"checkout_build", "upload_photo"} -> {200, 201}
      [] op = "fetch_wardrobe" -> {200, 304}
      [] op = "fetch_ontology_models" -> {200, 304, 404}
      [] OTHER -> {200}

\* what operation op makes of the response resp on route (proxy, mode)
OpOutcome(op, resp, proxy, mode) ==
    CASE op \in {"search", "checkout_build", "checkout_put"} ->
            LadderOutcome(resp, AllowStatuses(op), proxy, mode)
      [] op = "nearby_pickup_points" -> NearbyOutcome(resp, proxy, mode)
      [] op = "fetch_item_detail" -> ItemDetailOutcome(resp, proxy, mode)
      [] OTHER -> DelegatingOutcome(resp, AllowStatuses(op), proxy)

\* the pool after an outcome's reset_session, if it made one
AfterOutcome(pool, out) ==
    IF out.reset THEN ResetSession(pool, out.key[1], out.key[2]) ELSE pool

\* ------------------------------------------------------------------ state
VARIABLES
    session_pool,   \* _session_pool: route -> session, NoSession where the key is absent
    created,        \* number of requests.Session objects constructed so far
    granted,        \* route -> the session _get_session last returned for it,
                    \*          NoSession since the route's last reset
    pending,        \* the client call whose request is on the wire
    last,           \* the call that returned last and what it returned
    task,           \* SpecConc: each task's position inside _get_session / reset_session
    nreset,         \* SpecConc: number of reset_session calls made so far
    tx,             \* SpecRelist: the running relist_item call, its locals and position
    calls,          \* SpecRelist: the remote calls and the dwell of that call, in order
    prior,          \* SpecRelistLog: how the relist_item call before this one ended
    inp,            \* the argument a translator, extractor or normalizer is called with
    outp            \* what that call returned or raised

poolVars == <<session_pool, created>>
seqVars == <<granted, pending, last>>
concVars == <<task, nreset>>
relistVars == <<tx, calls, prior>>
pureVars == <<inp, outp>>
vars == <<session_pool, created, granted, pending, last, task, nreset, tx, calls, prior,
          inp, outp>>

NoPending == [op |-> "none", route |-> NoKey, session |-> NoSession]
NoLast == [kind |-> "none", route |-> NoKey, ret |-> NoSession, prev |-> NoSession,
           since |-> NoSession, http |-> 0, code |-> "-", status |-> 0,
           before |-> [r \in Routes |-> NoSession]]

EmptyPool == [r \in Routes |-> NoSession]

\* no relist_item call has been made
NoTx == [pc |-> "idle", route |-> NoKey, old_item_id |-> 0, n |-> 0, i |-> 0,
         photo_ids |-> <<>>,
         sticky |-> NoSession, deleted |-> FALSE,
         code |-> "-", status |-> 0, stage |-> "-"]

\* no translator, extractor or normalizer call has been made
NoCall == [fn |-> "none"]

\* no relist_item call has ended yet
NoEnd == [pc |-> "idle", code |-> "-", status |-> 0, stage |-> "-"]

Tasks == {"t1", "t2"}
\* the routes the concurrent tasks call the pool on
ConcRoutes == {PoolKey(NoProxy, NoMode), PoolKey("p1", "DIRECT")}

\* a task outside any pool call; ret, miss and raised describe its last
\* _get_session call: the session returned, whether `key not in _session_pool`
\* was true, whether the call raised KeyError
IdleTask == [pc |-> "idle", route |-> NoKey, calls |-> 0, miss |-> FALSE,
             new |-> NoSession, ret |-> NoSession, raised |-> FALSE]

\* the pool empty, no call made, no task or transaction running
IdleInit ==
    /\ session_pool = EmptyPool
    /\ created = 0
    /\ granted = EmptyPool
    /\ pending = NoPending
    /\ last = NoLast
    /\ task = [t \in Tasks |-> IdleTask]
    /\ nreset = 0
    /\ tx = NoTx
    /\ calls = <<>>
    /\ prior = NoEnd

PoolInit ==
    /\ IdleInit
    /\ inp = NoCall
    /\ outp = NoCall

\* a direct call of _get_session(proxy, transport_mode)
Acquire(proxy, mode) ==
    LET g == GetSession(session_pool, created, proxy, mode)
        key == PoolKey(proxy, mode)
    IN /\ pending = NoPending
       /\ g.created <= MaxHandles
       /\ session_pool' = g.pool
       /\ created' = g.created
       /\ granted' = [granted EXCEPT ![key] = g.ret]
       /\ last' = [NoLast EXCEPT !.kind = "acquire", !.route = key, !.ret = g.ret,
                                 !.prev = session_pool[key], !.since = granted[key],
                                 !.before = session_pool]
       /\ UNCHANGED <<pending, concVars, relistVars, pureVars>>

\* a direct call of reset_session(proxy, transport_mode)
Invalidate(proxy, mode) ==
    LET key == PoolKey(proxy, mode)
    IN /\ pending = NoPending
       /\ session_pool' = ResetSession(session_pool, proxy, mode)
       /\ granted' = [r \in Routes |->
                        IF session_pool'[r] = NoSession THEN NoSession ELSE granted[r]]
       /\ last' = [NoLast EXCEPT !.kind = "invalidate", !.route = key,
                                 !.prev = session_pool[key], !.before = session_pool]
       /\ UNCHANGED <<created, pending, concVars, relistVars, pureVars>>

\* a client operation up to its request: session = _get_session(proxy,
\* transport_mode), then session.get / post / put
Send(op, proxy, mode) ==
    LET g == GetSession(session_pool, created, proxy, mode)
        key == PoolKey(proxy, mode)
    IN /\ pending = NoPending
       /\ g.created <= MaxHandles
       /\ session_pool' = g.pool
       /\ created' = g.created
       /\ granted' = [granted EXCEPT ![key] = g.ret]
       /\ pending' = [op |-> op, route |-> key, session |-> g.ret]
       /\ last' = NoLast
       /\ UNCHANGED <<concVars, relistVars, pureVars>>

\* the rest of the operation, from the response to its return or raise
Receive(resp) ==
    LET key == pending.route
        out == OpOutcome(pending.op, resp, key[1], key[2])
    IN /\ pending # NoPending
       /\ session_pool' = AfterOutcome(session_pool, out)
       /\ granted' = [r \in Routes |->
                        IF session_pool'[r] = NoSession THEN NoSession ELSE granted[r]]
       /\ pending' = NoPending
       /\ last' = [NoLast EXCEPT !.kind = pending.op, !.route = key,
                                 !.ret = pending.session, !.prev = session_pool[key],
                                 !.http = resp.status, !.code = out.code,
                                 !.status = out.status, !.before = session_pool]
       /\ UNCHANGED <<created, concVars, relistVars, pureVars>>

Next ==
    \/ \E p \in Proxies, m \in Modes : Acquire(p, m)
    \/ \E p \in Proxies, m \in Modes : Invalidate(p, m)
    \/ \E op \in Ops, p \in Proxies, m \in Modes : Send(op, p, m)
    \/ \E resp \in Responses : Receive(resp)

Init == PoolInit

Spec == Init /\ [][Next]_vars

\* ------------------------------------------------------------------ concurrent pool calls
\* The gateway's synchronous handlers run on worker threads and the pool has
\* no lock, so a thread switch can fall between any two steps of
\* _get_session. Each step below is one dictionary operation.

\* a task enters _get_session(route)
T_CallGet(t, r) ==
    /\ task[t].pc = "idle"
    /\ task[t].calls < MaxCalls
    /\ task' = [task EXCEPT ![t] = [IdleTask EXCEPT !.pc = "check", !.route = r,
                                                    !.calls = task[t].calls]]
    /\ UNCHANGED <<poolVars, seqVars, nreset, relistVars, pureVars>>

\* if key not in _session_pool:
T_Check(t) ==
    /\ task[t].pc = "check"
    /\ task' = [task EXCEPT ![t].miss = (session_pool[task[t].route] = NoSession),
                            ![t].pc = IF session_pool[task[t].route] = NoSession
                                      THEN "construct" ELSE "return"]
    /\ UNCHANGED <<poolVars, seqVars, nreset, relistVars, pureVars>>

\* requests.Session(impersonate=imp), the right-hand side of the assignment
T_Construct(t) ==
    /\ task[t].pc = "construct"
    /\ created < MaxHandles
    /\ created' = created + 1
    /\ task' = [task EXCEPT ![t].new = Session(created + 1, ImpFor(task[t].route[2])),
                            ![t].pc = "store"]
    /\ UNCHANGED <<session_pool, seqVars, nreset, relistVars, pureVars>>

\* _session_pool[key] = <the new session>
T_Store(t) ==
    /\ task[t].pc = "store"
    /\ session_pool' = [session_pool EXCEPT ![task[t].route] = task[t].new]
    /\ task' = [task EXCEPT ![t].pc = "return"]
    /\ UNCHANGED <<created, seqVars, nreset, relistVars, pureVars>>

\* return _session_pool[key]: KeyError when the key is gone
T_Return(t) ==
    /\ task[t].pc = "return"
    /\ task' = [task EXCEPT ![t].pc = "idle",
                            ![t].calls = task[t].calls + 1,
                            ![t].ret = session_pool[task[t].route],
                            ![t].raised = (session_pool[task[t].route] = NoSession)]
    /\ UNCHANGED <<poolVars, seqVars, nreset, relistVars, pureVars>>

\* reset_session(route): one dict.pop, which no thread switch can split
T_Reset(t, r) ==
    /\ task[t].pc = "idle"
    /\ task[t].calls < MaxCalls
    /\ session_pool' = ResetSession(session_pool, r[1], r[2])
    /\ nreset' = nreset + 1
    /\ task' = [task EXCEPT ![t].calls = task[t].calls + 1]
    /\ UNCHANGED <<created, seqVars, relistVars, pureVars>>

NextConc ==
    \/ \E t \in Tasks, r \in ConcRoutes : T_CallGet(t, r)
    \/ \E t \in Tasks : T_Check(t)
    \/ \E t \in Tasks : T_Construct(t)
    \/ \E t \in Tasks : T_Store(t)
    \/ \E t \in Tasks : T_Return(t)
    \/ \E t \in Tasks, r \in ConcRoutes : T_Reset(t, r)

SpecConc == Init /\ [][NextConc]_vars

\* ------------------------------------------------------------------ relist_item
\* the values old_item_id is drawn from
OldItemIds == {7, 8}
\* time.sleep(10) between delete and create
DWELL_SECONDS == 10

\* one entry of calls: a request sent on a session, or the dwell
Call(kind, arg, session) == [kind |-> kind, arg |-> arg, session |-> session]

\* mutant of the loop: it stops after the first image
UploadsDone_AfterFirst(i, n) == i >= 1 \/ i = n

\* for img_bytes in image_bytes_list: the loop is over once every image has
\* been through upload_photo
UploadsDone(i, n) == i = n

\* mutant of the guard: it never fires
NoPhotos_Never(photo_ids) == FALSE

\* if not photo_ids: raise VintedError("UPLOAD_FAILED", ...)
NoPhotos(photo_ids) == photo_ids = <<>>

\* photo_id = result.get("id"); if photo_id: photo_ids.append(...)
\* the id the marketplace assigns is the image's position
CollectPhoto(photo_ids, body, i) ==
    IF body = "json_with_id" THEN Append(photo_ids, i) ELSE photo_ids

\* how a finished call ended: returned or raised, the VintedError's code and
\* status_code, and the stage it was in
Ended(t) == [pc |-> t.pc, code |-> t.code, status |-> t.status, stage |-> t.stage]

\* mutant of the raise: the error is caught and the step tried again
Fail_Retry(t, stage, code, status) == t

\* mutant of the raise: the error is caught where an upload is under way,
\* and the loop goes on
Fail_SkipImage(t, stage, code, status) ==
    IF stage = "Uploading" /\ code \notin {"UPLOAD_FAILED", "EXCEPTION"} /\ t.i + 1 < t.n
    THEN [t EXCEPT !.i = t.i + 1]
    ELSE [t EXCEPT !.pc = "Failed", !.stage = stage, !.code = code, !.status = status]

\* the exception leaves relist_item: nothing catches it on the way
Fail(t, stage, code, status) ==
    [t EXCEPT !.pc = "Failed", !.stage = stage, !.code = code, !.status = status]

\* the head of relist_item: the sticky session and the empty photo list; with
\* no image the loop body never runs and the photo guard is next
RelistBegin(proxy, mode, old, n) ==
    LET sticky == Session(created + 1, ImpFor(mode))
        t0 == [NoTx EXCEPT !.pc = "Uploading", !.route = PoolKey(proxy, mode),
                           !.old_item_id = old, !.n = n, !.sticky = sticky]
        t1 == IF ~UploadsDone(0, n) THEN t0
              ELSE IF NoPhotos(<<>>) THEN Fail(t0, "Uploading", "UPLOAD_FAILED", 0)
              ELSE [t0 EXCEPT !.pc = "Deleting"]
    IN /\ tx.pc \in {"idle", "Done", "Failed"}
       /\ created < MaxHandles
       /\ created' = created + 1
       /\ tx' = t1
       /\ calls' = <<>>
       /\ UNCHANGED <<session_pool, seqVars, concVars, pureVars>>

\* a call of relist_item
RelistStart(proxy, mode, old, n) ==
    /\ RelistBegin(proxy, mode, old, n)
    /\ UNCHANGED prior

\* a call of relist_item, the caller keeping how its previous call ended
RelistStartLogged(proxy, mode, old, n) ==
    /\ RelistBegin(proxy, mode, old, n)
    /\ prior' = Ended(tx)

\* one turn of the loop: mutate_image, upload_photo on the sticky session,
\* the pacing sleep; after the last image, the photo guard
RelistUpload(mutated, resp) ==
    LET proxy == tx.route[1]
        mode == tx.route[2]
        s == SessionFor(tx.sticky, session_pool, created, proxy, mode)
        out == DelegatingOutcome(resp, {200, 201}, proxy)
        ids == CollectPhoto(tx.photo_ids, resp.body, tx.i + 1)
        t0 == [tx EXCEPT !.i = tx.i + 1, !.photo_ids = ids]
        t1 == IF ~mutated THEN Fail(tx, "Uploading", "EXCEPTION", 0)
              ELSE IF out.code # "OK" THEN Fail(tx, "Uploading", out.code, out.status)
              ELSE IF ~UploadsDone(tx.i + 1, tx.n) THEN t0
              ELSE IF NoPhotos(ids) THEN Fail(t0, "Uploading", "UPLOAD_FAILED", 0)
              ELSE [t0 EXCEPT !.pc = "Deleting"]
    IN /\ tx.pc = "Uploading"
       /\ s.created <= MaxHandles
       /\ tx' = t1
       /\ IF mutated
          THEN /\ calls' = Append(calls, Call("upload", tx.i + 1, s.ret))
               /\ session_pool' = AfterOutcome(s.pool, out)
               /\ created' = s.created
          ELSE UNCHANGED <<calls, session_pool, created>>
       /\ UNCHANGED prior
       /\ UNCHANGED <<seqVars, concVars, pureVars>>

\* delete_listing(item_id=old_item_id, session=sticky_session)
RelistDelete(resp) ==
    LET proxy == tx.route[1]
        mode == tx.route[2]
        s == SessionFor(tx.sticky, session_pool, created, proxy, mode)
        out == DelegatingOutcome(resp, {200}, proxy)
        t1 == IF out.code # "OK" THEN Fail(tx, "Deleting", out.code, out.status)
              ELSE [tx EXCEPT !.pc = "Waiting", !.deleted = TRUE]
    IN /\ tx.pc = "Deleting"
       /\ s.created <= MaxHandles
       /\ tx' = t1
       /\ calls' = Append(calls, Call("delete", tx.old_item_id, s.ret))
       /\ session_pool' = AfterOutcome(s.pool, out)
       /\ created' = s.created
       /\ UNCHANGED prior
       /\ UNCHANGED <<seqVars, concVars, pureVars>>

\* time.sleep(10), then the text jitter and the new photo references
RelistWait ==
    /\ tx.pc = "Waiting"
    /\ tx' = [tx EXCEPT !.pc = "Creating"]
    /\ calls' = Append(calls, Call("sleep", DWELL_SECONDS, NoSession))
    /\ UNCHANGED <<poolVars, prior, seqVars, concVars, pureVars>>

\* create_listing(session=sticky_session), then the return
RelistCreate(resp) ==
    LET proxy == tx.route[1]
        mode == tx.route[2]
        s == SessionFor(tx.sticky, session_pool, created, proxy, mode)
        out == DelegatingOutcome(resp, {200, 201}, proxy)
        t1 == IF out.code # "OK" THEN Fail(tx, "Creating", out.code, out.status)
              ELSE [tx EXCEPT !.pc = "Done", !.code = "OK"]
    IN /\ tx.pc = "Creating"
       /\ s.created <= MaxHandles
       /\ tx' = t1
       /\ calls' = Append(calls, Call("create", 0, s.ret))
       /\ session_pool' = AfterOutcome(s.pool, out)
       /\ created' = s.created
       /\ UNCHANGED prior
       /\ UNCHANGED <<seqVars, concVars, pureVars>>

\* another handler's _get_session, on its own thread while relist_item runs,
\* on one of the two pool keys relist_item's callees name: the transaction's
\* own route and (proxy, None)
OtherAcquire(proxy, mode) ==
    LET g == GetSession(session_pool, created, proxy, mode)
    IN /\ tx.pc \notin {"idle", "Done", "Failed"}
       /\ PoolKey(proxy, mode) \in {tx.route, PoolKey(tx.route[1], NoMode)}
       /\ g.created <= MaxHandles
       /\ g.created # created
       /\ session_pool' = g.pool
       /\ created' = g.created
       /\ UNCHANGED <<seqVars, concVars, relistVars, pureVars>>

\* the gateway's answer to a failed /relist: a VintedError gives its code
\* and its status_code or 500, any other exception RELIST_ERROR and 500
RelistReply(e) ==
    IF e.code = "EXCEPTION"
    THEN [ok |-> FALSE, code |-> "RELIST_ERROR", http |-> 500]
    ELSE [ok |-> FALSE, code |-> e.code, http |-> IF e.status = 0 THEN 500 ELSE e.status]

NextRelist ==
    \/ \E p \in Proxies, m \in Modes, old \in OldItemIds, n \in 0..MaxImages :
          RelistStart(p, m, old, n)
    \/ \E mutated \in BOOLEAN, resp \in Responses : RelistUpload(mutated, resp)
    \/ \E resp \in Responses : RelistDelete(resp)
    \/ RelistWait
    \/ \E resp \in Responses : RelistCreate(resp)
    \/ \E p \in Proxies, m \in Modes : OtherAcquire(p, m)

SpecRelist == Init /\ [][NextRelist]_vars

NextRelistLog ==
    \/ \E p \in Proxies, m \in Modes, old \in OldItemIds, n \in 0..MaxImages :
          RelistStartLogged(p, m, old, n)
    \/ \E mutated \in BOOLEAN, resp \in Responses : RelistUpload(mutated, resp)
    \/ \E resp \in Responses : RelistDelete(resp)
    \/ RelistWait
    \/ \E resp \in Responses : RelistCreate(resp)
    \/ \E p \in Proxies, m \in Modes : OtherAcquire(p, m)

SpecRelistLog == Init /\ [][NextRelistLog]_vars

\* ------------------------------------------------------------------ claims on the pool

IsOp(kind) == kind \in Ops

\* C4 (as claimed): whenever a client operation classifies its response as a
\* challenge, the pool no longer holds a session for the route the operation
\* ran on when the error is raised.
C4_ChallengeDropsRouteSession ==
    (IsOp(last.kind) /\ last.code = "DATADOME_CHALLENGE")
        => session_pool[last.route] = NoSession

\* C5 (as claimed): under any interleaving of two tasks' pool calls, no
\* _get_session call fails because the entry vanished, and two calls that both
\* found the same route uncached, with no reset in the run, return one session.
C5_PoolCallsAtomic ==
    /\ \A t \in Tasks : ~task[t].raised
    /\ \A t1, t2 \in Tasks :
          ( /\ nreset = 0
            /\ task[t1].ret # NoSession /\ task[t2].ret # NoSession
            /\ task[t1].route = task[t2].route
            /\ task[t1].miss /\ task[t2].miss )
          => task[t1].ret = task[t2].ret

\* C6: _get_session returns the session cached for the route when there is
\* one and leaves the pool as it was; otherwise it constructs a session never
\* seen before, with the impersonation target of the route's mode (DIRECT:
\* chrome110, any other mode: chrome), and caches it under the route; and a
\* call on a route that has been acquired with no reset since returns the
\* session the earlier call returned.
C6_AcquireCachedOrNew ==
    last.kind = "acquire" =>
        /\ last.prev # NoSession =>
              (last.ret = last.prev /\ session_pool = last.before)
        /\ last.prev = NoSession =>
              /\ last.ret.imp = (IF last.route[2] = "DIRECT" THEN "chrome110" ELSE "chrome")
              /\ last.ret.id = created
              /\ \A r \in Routes : last.before[r].id < last.ret.id
              /\ session_pool = [last.before EXCEPT ![last.route] = last.ret]
        /\ last.since # NoSession => last.ret = last.since

\* a second _get_session on a DIRECT route returned the cached chrome110 session
C6_Witness ==
    /\ last.kind = "acquire"
    /\ last.since # NoSession
    /\ last.ret = last.since
    /\ last.ret.imp = "chrome110"

\* C7, the state after reset_session: the route holds nothing, every other
\* route holds what it held, and a reset of an uncached route changes nothing
C7_AfterInvalidate ==
    last.kind = "invalidate" =>
        /\ session_pool[last.route] = NoSession
        /\ \A r \in Routes : r # last.route => session_pool[r] = last.before[r]
        /\ last.prev = NoSession => session_pool = last.before

\* C7, the step after it: a _get_session on the route just reset finds it
\* uncached and returns a newly constructed session, not the one dropped
C7_NextAcquireFresh ==
    ( /\ last.kind = "invalidate"
      /\ last'.kind = "acquire"
      /\ last'.route = last.route )
    => /\ last'.prev = NoSession
       /\ last'.ret # NoSession
       /\ last'.ret # last.prev
       /\ last'.ret.id = created + 1

\* C7: after reset_session(route) the pool holds no session for the route and
\* the next _get_session(route) returns a new one; no other route changes.
C7_InvalidateDropsOnlyRoute == [](C7_AfterInvalidate) /\ [][C7_NextAcquireFresh]_vars

\* a cached route was reset while another route stayed cached
C7_Witness ==
    /\ last.kind = "invalidate"
    /\ last.prev # NoSession
    /\ \E r \in Routes : r # last.route /\ session_pool[r] # NoSession

\* C8: no session is cached under two routes, and the session a call
\* returns (or an operation sends on) is cached under no route but its own.
C8_RoutesIsolated ==
    /\ \A r1, r2 \in Routes :
          (r1 # r2 /\ session_pool[r1] # NoSession)
             => (session_pool[r1] # session_pool[r2] /\ session_pool[r1] # granted[r2])
    /\ last.kind = "acquire" =>
          \A r \in Routes : r # last.route =>
             (session_pool[r] # last.ret /\ last.before[r] # last.ret)
    /\ pending # NoPending =>
          \A r \in Routes : r # pending.route => session_pool[r] # pending.session

\* two routes on one proxy endpoint that differ only in mode are both cached
C8_Witness ==
    /\ last.kind = "acquire"
    /\ session_pool[PoolKey("p1", "PROXY")] # NoSession
    /\ session_pool[PoolKey("p1", "DIRECT")] # NoSession

\* C10 (as claimed): in every client operation status 401 gives
\* SESSION_EXPIRED, 403 gives FORBIDDEN and 429 gives RATE_LIMITED.
C10_StatusMapsToCode ==
    IsOp(last.kind) =>
        /\ last.http = 401 => last.code = "SESSION_EXPIRED"
        /\ last.http = 403 => last.code = "FORBIDDEN"
        /\ last.http = 429 => last.code = "RATE_LIMITED"

\* ------------------------------------------------------------------ claims on relist_item

RemoteKinds == {"upload", "delete", "create"}

\* C1: while a relist transaction has collected no photo id it has called
\* neither delete nor create and cannot get past Uploading; it ends failed,
\* at Uploading, and with UPLOAD_FAILED when every upload returned.
C1_NoPhotoNoDelete ==
    tx.photo_ids = <<>> =>
        /\ \A j \in 1..Len(calls) : calls[j].kind \notin {"delete", "sleep", "create"}
        /\ tx.pc \in {"idle", "Uploading", "Failed"}
        /\ tx.pc = "Failed" =>
              /\ tx.stage = "Uploading"
              /\ tx.i = tx.n => tx.code = "UPLOAD_FAILED"

\* every image was uploaded, none got a photo id, the transaction failed
C1_Witness ==
    /\ tx.pc = "Failed"
    /\ tx.code = "UPLOAD_FAILED"
    /\ tx.n = MaxImages
    /\ Len(calls) = MaxImages
    /\ \A j \in 1..Len(calls) : calls[j].kind = "upload"

\* C2: the calls of a relist transaction are a prefix of: one upload per
\* image in input order, one delete of old_item_id, the 10 s dwell, one
\* create; delete comes only after the last upload returned, the dwell and
\* create only after delete returned success, and a transaction that returns
\* made them all.
C2_CallOrder ==
    /\ Len(calls) <= tx.n + 3
    /\ \A j \in 1..Len(calls) :
          IF j <= tx.n THEN calls[j].kind = "upload" /\ calls[j].arg = j
          ELSE IF j = tx.n + 1 THEN calls[j].kind = "delete" /\ calls[j].arg = tx.old_item_id
          ELSE IF j = tx.n + 2 THEN calls[j].kind = "sleep" /\ calls[j].arg = 10
          ELSE calls[j].kind = "create"
    /\ Len(calls) > tx.n => (tx.i = tx.n /\ tx.n > 0)
    /\ Len(calls) > tx.n + 1 => tx.deleted
    /\ tx.pc = "Done" => Len(calls) = tx.n + 3

\* a transaction over the most images returned
C2_Witness ==
    /\ tx.pc = "Done"
    /\ tx.n = MaxImages
    /\ Len(calls) = MaxImages + 3

\* C3 (as claimed): what the caller is told of a failed relist names the
\* stage, so a failure at Creating and a failure at Uploading or Deleting
\* are never told to it in the same words.
C3_StageReported ==
    ( /\ tx.pc = "Failed" /\ prior.pc = "Failed"
      /\ (tx.stage = "Creating") # (prior.stage = "Creating") )
    => RelistReply(Ended(tx)) # RelistReply(prior)

\* C9: every upload, the delete and the create of a relist transaction go out
\* on the session constructed at its start, which the pool never holds.
C9_PinnedSession ==
    tx.pc # "idle" =>
        /\ tx.sticky # NoSession
        /\ \A j \in 1..Len(calls) :
              calls[j].kind \in RemoteKinds => calls[j].session = tx.sticky
        /\ \A r \in Routes : session_pool[r] # tx.sticky

\* a transaction returned while the pool held a session for its own route
C9_Witness ==
    /\ tx.pc = "Done"
    /\ tx.n = MaxImages
    /\ session_pool[tx.route] # NoSession
    /\ \A j \in 1..Len(calls) :
          calls[j].kind \in RemoteKinds => calls[j].session = tx.sticky

\* how many of the calls made so far are of this kind with this argument
Sent(kind, arg) ==
    Cardinality({j \in 1..Len(calls) : calls[j].kind = kind /\ calls[j].arg = arg})

\* C22: a relist transaction sends no request twice, whatever failed: at most
\* one upload per input image, at most one delete, at most one create, and
\* a transaction that failed sends nothing more.
C22_NoResend ==
    /\ \A i \in 1..tx.n : Sent("upload", i) <= 1
    /\ \A j \in 1..Len(calls) : calls[j].kind = "upload" => calls[j].arg \in 1..tx.n
    /\ Sent("delete", tx.old_item_id) <= 1
    /\ Sent("create", 0) <= 1
    /\ \A j \in 1..Len(calls) :
          calls[j].kind \in {"delete", "create"} =>
              calls[j].arg = (IF calls[j].kind = "delete" THEN tx.old_item_id ELSE 0)
    /\ tx.pc = "Failed" => Len(calls) <= (IF tx.stage = "Uploading" THEN tx.i + 1
                                         ELSE IF tx.stage = "Deleting" THEN tx.n + 1
                                         ELSE tx.n + 3)

\* the delete of a transaction over the most images failed after one request
C22_Witness ==
    /\ tx.pc = "Failed"
    /\ tx.stage = "Deleting"
    /\ tx.n = MaxImages
    /\ Sent("delete", tx.old_item_id) = 1
    /\ \A i \in 1..MaxImages : Sent("upload", i) = 1

\* the upload_photo call that got resp raised
UploadRaised(resp) == DelegatingOutcome(resp, {200, 201}, tx.route[1]).code # "OK"

\* C28: a step in which upload_photo raises ends the transaction, failed at
\* Uploading with the call's error: the calls made are the uploads up to that
\* image and nothing else, whatever photo ids were collected before, and a
\* failed transaction makes no more calls (the next calls are those of a new
\* transaction, on a new sticky session).
C28_UploadErrorEndsRelist ==
    [][ /\ \A resp \in Responses :
              (tx.pc = "Uploading" /\ UploadRaised(resp) /\ RelistUpload(TRUE, resp)) =>
                  /\ tx'.pc = "Failed"
                  /\ tx'.stage = "Uploading"
                  /\ tx'.code = DelegatingOutcome(resp, {200, 201}, tx.route[1]).code
                  /\ tx'.photo_ids = tx.photo_ids
                  /\ Len(calls') = tx.i + 1
                  /\ \A j \in 1..Len(calls') : calls'[j].kind = "upload"
        /\ (tx.pc = "Failed" /\ tx'.sticky = tx.sticky) => calls' = calls
        /\ (tx.pc = "Failed" /\ tx'.sticky # tx.sticky) => calls' = <<>>
      ]_vars

\* an upload raised after an earlier one had yielded a photo id
C28_Witness ==
    /\ tx.pc = "Failed"
    /\ tx.stage = "Uploading"
    /\ tx.code \notin {"UPLOAD_FAILED", "EXCEPTION"}
    /\ tx.photo_ids # <<>>
    /\ Len(calls) = tx.i + 1
    /\ \A j \in 1..Len(calls) : calls[j].kind = "upload"

\* ------------------------------------------------------------------ response classification
\* One client operation applied to one completed request: the operation, the
\* response and the route are drawn at the start, Classify is the operation's
\* code from the response to its return or raise.

\* the operations that decode the response body as JSON
JsonOps == Ops \ {"fetch_item_detail"}

InitResponse ==
    /\ IdleInit
    /\ inp \in [fn : Ops, resp : Responses, route : Routes]
    /\ outp = NoCall

Classify ==
    /\ inp.fn \in Ops
    /\ outp = NoCall
    /\ outp' = OpOutcome(inp.fn, inp.resp, inp.route[1], inp.route[2])
    /\ UNCHANGED <<poolVars, seqVars, concVars, relistVars, inp>>

NextResponse == Classify

SpecResponse == InitResponse /\ [][NextResponse]_vars

\* C11: a JSON operation given a response with a status it accepts, a
\* text/html content type and a challenge marker (datadome, <!doctype, <html)
\* in the first 500 characters raises DATADOME_CHALLENGE and never calls
\* resp.json() on it.
C11_ChallengeBeforeDecode ==
    ( /\ outp # NoCall
      /\ inp.fn \in JsonOps
      /\ inp.resp.net = "ok"
      /\ inp.resp.status \in AllowStatuses(inp.fn)
      /\ inp.resp.ctype = "text/html"
      /\ inp.resp.body \in {"challenge_page", "item_page", "no_item_page"} )
    => (outp.code = "DATADOME_CHALLENGE" /\ ~outp.decoded)

\* fetch_ontology_models took a 404 markup page without the vendor token for a challenge
C11_Witness ==
    /\ outp # NoCall
    /\ inp.fn = "fetch_ontology_models"
    /\ inp.resp.status = 404
    /\ inp.resp.ctype = "text/html"
    /\ inp.resp.body = "item_page"
    /\ outp.code = "DATADOME_CHALLENGE"
    /\ ~outp.decoded

\* C20 (as claimed): fetch_item_detail given a well-formed page that lacks
\* the item ends with an outcome other than the one it gives a body that is
\* not a page at all.
C20_NotFoundApartFromParseError ==
    ( /\ outp # NoCall
      /\ inp.fn = "fetch_item_detail"
      /\ inp.resp.net = "ok"
      /\ inp.resp.status = 200
      /\ inp.resp.body = "no_item_page" )
    => outp.code # ItemDetailOutcome([inp.resp EXCEPT !.body = "text"],
                                     inp.route[1], inp.route[2]).code

\* ------------------------------------------------------------------ catalog query translation
\* A catalog URL is its host and its query string, the query string the
\* sequence of its key=value parts as written (percent-encoded). The query
\* string _build_search_params returns is the sequence of its parts as well.

\* parts of one catalog URL's query string
MaxParams == 3

\* a host (netloc) is the sequence of its pieces: "vinted.co.uk" wherever
\* those characters occur in it, the dots next to it, and the text between:
\* www.vinted.co.uk, www.vinted.fr, vinted.co.uk.evil.example
Hosts == {<<"www", ".", "vinted.co.uk">>, <<"www", ".", "vinted.fr">>,
          <<"vinted.co.uk", ".", "evil.example">>}

\* the page argument of search: the gateway's Query(1, ge=1, le=100)
Pages == {1, 2}

\* key=value parts as they are written in a URL
UrlPairs ==
    {<<"catalog[]", "5">>, <<"brand_ids[]", "7">>, <<"brand_ids%5B%5D", "8">>,
     <<"search_text", "">>, <<"search_text", "a%20b">>, <<"search_text", "foo">>,
     <<"search_text", "x%5B%5D">>,
     <<"page", "0">>, <<"page", "02">>, <<"page", "-3">>, <<"page", "x">>,
     <<"per_page", "0">>, <<"per_page", "500">>,
     <<"order", "price_low_to_high">>}

RECURSIVE SeqsUpTo(_, _)
\* the sequences over S of length at most n
SeqsUpTo(S, n) ==
    IF n = 0 THEN {<<>>}
    ELSE LET shorter == SeqsUpTo(S, n - 1)
         IN shorter \cup {Append(q, x) : q \in {r \in shorter : Len(r) = n - 1}, x \in S}

CatalogUrls == [host : Hosts, query : SeqsUpTo(UrlPairs, MaxParams)]

\* urllib's unquote after '+' -> ' ', as parse_qs applies it to names and values
Unquote(str) ==
    CASE str = "a%20b" -> "a b"
      [] str = "a+b" -> "a b"
      [] str = "brand_ids%5B%5D" -> "brand_ids[]"
      [] str = "catalog_ids%5B%5D" -> "catalog_ids[]"
      [] str = "x%5B%5D" -> "x[]"
      [] OTHER -> str

\* urllib's quote_plus, as urlencode applies it to names and values
QuotePlus(str) ==
    CASE str = "a b" -> "a+b"
      [] str = "brand_ids[]" -> "brand_ids%5B%5D"
      [] str = "catalog[]" -> "catalog%5B%5D"
      [] str = "catalog_ids[]" -> "catalog_ids%5B%5D"
      [] str = "x[]" -> "x%5B%5D"
      [] OTHER -> str

\* qs.replace("%5B%5D", "[]") on one name or value of the string
RawBrackets(str) ==
    CASE str = "brand_ids%5B%5D" -> "brand_ids[]"
      [] str = "catalog%5B%5D" -> "catalog[]"
      [] str = "catalog_ids%5B%5D" -> "catalog_ids[]"
      [] str = "x%5B%5D" -> "x[]"
      [] OTHER -> str

\* the strings int() accepts, and its value
IsIntLiteral(str) == str \in {"0", "1", "02", "2", "-3", "96", "500"}
IntOf(str) ==
    CASE str = "0" -> 0
      [] str = "1" -> 1
      [] str \in {"2", "02"} -> 2
      [] str = "-3" -> 0 - 3
      [] str = "96" -> 96
      [] OTHER -> 500

\* str() of an int
StrOf(n) ==
    CASE n = 0 -> "0"
      [] n = 1 -> "1"
      [] n = 2 -> "2"
      [] n = 0 - 3 -> "-3"
      [] n = 96 -> "96"
      [] OTHER -> "500"

\* "vinted.co.uk" in parsed.netloc
HostIsVinted(host) == \E i \in 1..Len(host) : host[i] = "vinted.co.uk"

\* the dict parse_qs builds is a sequence of <<name, values>> in the order
\* the names first appear; d[name].append(value), or d[name] = [value]
DictAppend(d, name, value) ==
    IF \E i \in 1..Len(d) : d[i][1] = name
    THEN [i \in 1..Len(d) |->
            IF d[i][1] = name THEN <<name, Append(d[i][2], value)>> ELSE d[i]]
    ELSE Append(d, <<name, <<value>>>>)

\* d.get(name, default)
DictGet(d, name, default) ==
    IF \E i \in 1..Len(d) : d[i][1] = name
    THEN d[CHOOSE i \in 1..Len(d) : d[i][1] = name][2]
    ELSE default

RECURSIVE ParseQsInto(_, _)
\* parse_qs with its defaults: a part whose value is empty is skipped
\* (keep_blank_values=False), names and values are unquoted
ParseQsInto(d, parts) ==
    IF parts = <<>> THEN d
    ELSE LET part == Head(parts)
             d1 == IF part[2] = "" THEN d
                   ELSE DictAppend(d, Unquote(part[1]), Unquote(part[2]))
         IN ParseQsInto(d1, Tail(parts))

ParseQs(parts) == ParseQsInto(<<>>, parts)

\* _parse_catalog_url(url): the dict returned, or the exception raised
ParseCatalogUrl(url) ==
    IF ~HostIsVinted(url.host) THEN [fn |-> "_parse_catalog_url", raised |-> "INVALID_URL"]
    ELSE LET query == ParseQs(url.query)
             order == DictGet(query, "order", <<"newest_first">>)[1]
             page == DictGet(query, "page", <<"1">>)[1]
             per_page == DictGet(query, "per_page", <<"96">>)[1]
         IN IF ~IsIntLiteral(page) \/ ~IsIntLiteral(per_page)
            THEN [fn |-> "_parse_catalog_url", raised |-> "ValueError"]
            ELSE [fn |-> "_parse_catalog_url", raised |-> "none",
                  raw_query |-> query, order |-> order,
                  page |-> IntOf(page), per_page |-> IntOf(per_page)]

\* PARAM_REMAP.get(key, key)
ParamRemap(key) == IF key = "catalog[]" THEN "catalog_ids[]" ELSE key

\* the keys _build_search_params sets itself
ControlledKeys == {"page", "per_page", "order"}

RECURSIVE FilterParts_KeepControlled(_)
RECURSIVE FilterParts(_)
\* mutant of the filter loop: page, per_page and order are not skipped
FilterParts_KeepControlled(d) ==
    IF d = <<>> THEN <<>>
    ELSE LET key == Head(d)[1]
             values == Head(d)[2]
         IN [j \in 1..Len(values) |-> <<ParamRemap(key), values[j]>>]
            \o FilterParts_KeepControlled(Tail(d))

\* for key, values in raw_query.items(): the (api_key, val) parts appended
FilterParts(d) ==
    IF d = <<>> THEN <<>>
    ELSE LET key == Head(d)[1]
             values == Head(d)[2]
         IN (IF key \in ControlledKeys THEN <<>>
             ELSE [j \in 1..Len(values) |-> <<ParamRemap(key), values[j]>>])
            \o FilterParts(Tail(d))

\* urlencode(parts), then .replace("%5B%5D", "[]"): the name=value parts of
\* the string returned, which joins them with "&"
UrlEncode(parts) ==
    [j \in 1..Len(parts) |->
        <<RawBrackets(QuotePlus(parts[j][1])), RawBrackets(QuotePlus(parts[j][2]))>>]

\* mutant of search: the page argument is not stored
WithPage_Keep(params, page) == params

\* params["page"] = page
WithPage(params, page) == [params EXCEPT !.page = page]

\* _build_search_params(params)
BuildSearchParams(params) ==
    UrlEncode(FilterParts(params.raw_query)
              \o << <<"page", StrOf(params.page)>>,
                    <<"per_page", StrOf(params.per_page)>>,
                    <<"order", params.order>> >>)

InitCatalog ==
    /\ IdleInit
    /\ inp \in [fn : {"_parse_catalog_url"}, url : CatalogUrls]
    /\ outp = NoCall

\* params = _parse_catalog_url(url)
ParseUrl ==
    /\ inp.fn = "_parse_catalog_url"
    /\ outp = NoCall
    /\ outp' = ParseCatalogUrl(inp.url)
    /\ UNCHANGED <<poolVars, seqVars, concVars, relistVars, inp>>

\* qs = _build_search_params(params)
BuildParams ==
    /\ outp # NoCall
    /\ outp.fn = "_parse_catalog_url"
    /\ outp.raised = "none"
    /\ outp' = [fn |-> "_build_search_params", params |-> outp,
                qs |-> BuildSearchParams(outp)]
    /\ UNCHANGED <<poolVars, seqVars, concVars, relistVars, inp>>

\* search(url, page=page) from the parsed URL to the query string of its
\* request
SearchParams(page) ==
    /\ outp # NoCall
    /\ outp.fn = "_parse_catalog_url"
    /\ outp.raised = "none"
    /\ outp' = [fn |-> "search", page |-> page, params |-> WithPage(outp, page),
                qs |-> BuildSearchParams(WithPage(outp, page))]
    /\ UNCHANGED <<poolVars, seqVars, concVars, relistVars, inp>>

NextCatalog == ParseUrl \/ BuildParams \/ \E page \in Pages : SearchParams(page)

SpecCatalog == InitCatalog /\ [][NextCatalog]_vars

\* the values, unquoted and in order, that the URL's parts give the filter
\* whose API name is key
UrlValues(parts, key) ==
    LET sel == SelectSeq(parts, LAMBDA part : ParamRemap(Unquote(part[1])) = key)
    IN [j \in 1..Len(sel) |-> Unquote(sel[j][2])]

\* the values, unquoted and in order, that the query string gives key
QsValues(qs, key) ==
    LET sel == SelectSeq(qs, LAMBDA part : Unquote(part[1]) = key)
    IN [j \in 1..Len(sel) |-> Unquote(sel[j][2])]

\* whether the URL has a part named key
UrlHas(parts, key) == \E i \in 1..Len(parts) : Unquote(parts[i][1]) = key

Built == outp # NoCall /\ outp.fn = "_build_search_params"

\* C12 (as claimed): every filter part of an accepted URL is in the query
\* string built from it, under its API name, with its value, as many times
\* and in the same order as in the URL, empty values included.
C12_FiltersPreserved ==
    Built =>
        \A i \in 1..Len(inp.url.query) :
            LET name == Unquote(inp.url.query[i][1])
            IN name \notin ControlledKeys =>
                  QsValues(outp.qs, ParamRemap(name)) = UrlValues(inp.url.query, ParamRemap(name))

\* C13 (as claimed): the parsed query and the string built from it carry
\* page >= 1 and per_page in 1..96 whatever the URL carried.
C13_PagingBounded ==
    /\ ( /\ outp # NoCall
         /\ outp.fn = "_parse_catalog_url"
         /\ outp.raised = "none" )
       => (outp.page >= 1 /\ outp.per_page \in 1..96)
    /\ Built =>
          /\ \A v \in {IntOf(QsValues(outp.qs, "page")[j]) :
                          j \in 1..Len(QsValues(outp.qs, "page"))} : v >= 1
          /\ \A v \in {IntOf(QsValues(outp.qs, "per_page")[j]) :
                          j \in 1..Len(QsValues(outp.qs, "per_page"))} : v \in 1..96

\* C14: the query string ends with page, per_page, order, in that order,
\* each once; every part before them is a filter; a URL without page gives
\* page=1, without per_page per_page=96, without order order=newest_first.
C14_ControlledLast ==
    Built =>
        LET qs == outp.qs
            n == Len(qs)
        IN /\ n >= 3
           /\ qs[n - 2][1] = "page"
           /\ qs[n - 1][1] = "per_page"
           /\ qs[n][1] = "order"
           /\ \A j \in 1..(n - 3) : qs[j][1] \notin ControlledKeys
           /\ ~UrlHas(inp.url.query, "page") => qs[n - 2][2] = "1"
           /\ ~UrlHas(inp.url.query, "per_page") => qs[n - 1][2] = "96"
           /\ ~UrlHas(inp.url.query, "order") => qs[n][2] = "newest_first"

\* search_text=foo&brand_ids[]=7&page=02 gave brand_ids[]=7, then page=2,
\* per_page=96, order=newest_first
C14_Witness ==
    /\ Built
    /\ inp.url.query = << <<"search_text", "foo">>, <<"brand_ids[]", "7">>, <<"page", "02">> >>
    /\ outp.qs = << <<"search_text", "foo">>, <<"brand_ids[]", "7">>, <<"page", "2">>,
                    <<"per_page", "96">>, <<"order", "newest_first">> >>

\* the string holds the characters "[]"
HasRawBrackets(str) == str \in {"brand_ids[]", "catalog[]", "catalog_ids[]", "x[]"}

\* the array filters of the catalog API
ArrayKeys == {"brand_ids[]", "catalog_ids[]"}

\* C25 (as claimed): in the query string built, literal [] stands only in the
\* names of array filters; no value holds it.
C25_BracketsPerKey ==
    Built =>
        \A j \in 1..Len(outp.qs) :
            /\ HasRawBrackets(outp.qs[j][1]) => outp.qs[j][1] \in ArrayKeys
            /\ ~HasRawBrackets(outp.qs[j][2])

\* the host is the marketplace's domain or a subdomain of it
IsSiteHost(host) ==
    /\ host[Len(host)] = "vinted.co.uk"
    /\ Len(host) > 1 => host[Len(host) - 1] = "."

\* C26 (as claimed): _parse_catalog_url raises INVALID_URL exactly for the
\* URLs whose host is neither the marketplace's domain nor a subdomain of it.
C26_HostValidated ==
    (outp # NoCall /\ outp.fn = "_parse_catalog_url") =>
        (outp.raised = "INVALID_URL") = ~IsSiteHost(inp.url.host)

\* C30: the query string of a search request has one page part, the page
\* argument, whatever page the URL named; its per_page and order parts are
\* the URL's, or 96 and newest_first for a URL without.
C30_PageArgumentWins ==
    (outp # NoCall /\ outp.fn = "search") =>
        LET per_page == UrlValues(inp.url.query, "per_page")
            order == UrlValues(inp.url.query, "order")
        IN /\ QsValues(outp.qs, "page") = <<StrOf(outp.page)>>
           /\ QsValues(outp.qs, "per_page") =
                 <<IF per_page = <<>> THEN "96" ELSE StrOf(IntOf(per_page[1]))>>
           /\ QsValues(outp.qs, "order") =
                 <<IF order = <<>> THEN "newest_first" ELSE order[1]>>

\* page=0&per_page=500 searched with page 2 asked for page=2&per_page=500
C30_Witness ==
    /\ outp # NoCall
    /\ outp.fn = "search"
    /\ inp.url.query = << <<"page", "0">>, <<"per_page", "500">> >>
    /\ outp.page = 2
    /\ outp.qs = << <<"page", "2">>, <<"per_page", "500">>, <<"order", "newest_first">> >>

\* ------------------------------------------------------------------ entity normalisation
\* An extracted entity is a dict; a key it lacks has the value Absent, None
\* is "None", numbers are written as their digits. A field that may hold an
\* object is a record: kind says whether the key is absent, a string (v) or
\* a dict (its keys id, title, amount, currency_code, each possibly Absent).
\* The inputs carry the snake_case keys; the camelCase aliases, catalog_id,
\* package_size_id, colours, attributes and photos follow the same code
\* shapes and are left out of the inputs.

Absent == "<absent>"

\* bool(v) of a scalar
Truthy(v) == v \notin {Absent, "None", "0", ""}

\* d.get(key): None for a key the dict lacks
Get(v) == IF v = Absent THEN "None" ELSE v

\* a or b, where an absent key reads as None (dict.get)
PyOr(a, b) == IF Truthy(a) THEN a ELSE IF b = Absent THEN "None" ELSE b

NoObj == [kind |-> "absent", v |-> Absent, id |-> Absent, title |-> Absent,
          amount |-> Absent, currency_code |-> Absent]
StrObj(v) == [NoObj EXCEPT !.kind = "str", !.v = v]
DictObj(id, title) == [NoObj EXCEPT !.kind = "dict", !.id = id, !.title = title]
PriceObj(amount, cur) ==
    [NoObj EXCEPT !.kind = "dict", !.amount = amount, !.currency_code = cur]

\* the entities normalised
RawItems ==
    [id : {"7"}, title : {Absent, "Red coat"},
     price : {NoObj, StrObj("10.0"), PriceObj("10.0", Absent), PriceObj("10.0", "EUR")},
     brand_id : {Absent, "0", "5"},
     brand_dto : {NoObj, DictObj("8", "Reebok")},
     brand : {NoObj, StrObj("Nike"), DictObj("9", "Adidas"), DictObj("9", Absent)},
     brand_title : {Absent, "Puma"},
     size_id : {Absent, "2"},
     size : {NoObj, StrObj("L"), DictObj("3", "Medium")},
     size_title : {Absent, "M"},
     status_id : {Absent, "4"},
     status : {NoObj, StrObj("Good"), StrObj("Mint"), DictObj("6", Absent)},
     is_hidden : {Absent, "None", "True"}]

\* _cond_map.get(status_val)
CondMap(label) ==
    CASE label \in {"New with tags", "new_with_tags"} -> "6"
      [] label \in {"New without tags", "new_without_tags"} -> "1"
      [] label \in {"Very good", "very_good"} -> "2"
      [] label \in {"Good", "good"} -> "3"
      [] label \in {"Satisfactory", "satisfactory"} -> "4"
      [] label = "Not fully functional" -> "5"
      [] OTHER -> "None"

\* {k: v for k, v in out.items() if v is not None}
StripNone(out) == [k \in DOMAIN out |-> IF out[k] = "None" THEN Absent ELSE out[k]]

\* raw.get("size_title") or (size_val.get("title") if dict) or (size_val if str)
SizeTitle(raw) ==
    PyOr(raw.size_title,
         PyOr(IF raw.size.kind = "dict" THEN raw.size.title ELSE "None",
              IF raw.size.kind = "str" THEN raw.size.v ELSE "None"))

\* brand_title after the loop over ("brand_dto", "brand")
BrandTitleLoop(raw) ==
    LET step(bval, acc) ==
            IF bval.kind = "dict" THEN PyOr(bval.title, acc)
            ELSE IF bval.kind = "str" /\ Truthy(bval.v) THEN bval.v
            ELSE acc
    IN step(raw.brand, step(raw.brand_dto, "None"))

\* brand_id after the loop: the first dict fills it when it is still falsy
BrandIdLoop(raw) ==
    LET step(bval, acc) ==
            IF bval.kind = "dict" /\ ~Truthy(acc) THEN Get(bval.id) ELSE acc
        start == PyOr(raw.brand_id, Absent)
    IN step(raw.brand, step(raw.brand_dto, start))

\* an id field with its nested fallback: raw.get(key), then obj.get("id")
\* when obj is a dict and the id is still falsy
IdWithNested(direct, obj) ==
    LET start == PyOr(direct, Absent)
    IN IF obj.kind = "dict" /\ ~Truthy(start) THEN Get(obj.id) ELSE start

\* _normalize_ssr_item(raw)
NormalizeSsrItem(raw) ==
    LET status_id == IdWithNested(raw.status_id, raw.status)
    IN StripNone(
        [id |-> Get(raw.id),
         title |-> Get(raw.title),
         price |-> IF raw.price.kind = "dict" THEN Get(raw.price.amount)
                   ELSE IF raw.price.kind = "str" THEN raw.price.v ELSE "None",
         currency |-> IF raw.price.kind = "dict"
                      THEN (IF raw.price.currency_code = Absent THEN "GBP"
                            ELSE raw.price.currency_code)
                      ELSE "None",
         brand_id |-> BrandIdLoop(raw),
         brand_title |-> PyOr(BrandTitleLoop(raw), raw.brand_title),
         size_id |-> IdWithNested(raw.size_id, raw.size),
         size_title |-> SizeTitle(raw),
         status_id |-> IF raw.status.kind = "str" /\ ~Truthy(status_id)
                       THEN CondMap(raw.status.v) ELSE status_id,
         is_hidden |-> Get(raw.is_hidden)])

InitNormalize ==
    /\ IdleInit
    /\ inp \in [fn : {"_normalize_ssr_item"}, raw : RawItems]
    /\ outp = NoCall

\* normalized = _normalize_ssr_item(item_data)
Normalize ==
    /\ inp.fn = "_normalize_ssr_item"
    /\ outp = NoCall
    /\ outp' = [fn |-> "_normalize_ssr_item", out |-> NormalizeSsrItem(inp.raw)]
    /\ UNCHANGED <<poolVars, seqVars, concVars, relistVars, inp>>

SpecNormalize == InitNormalize /\ [][Normalize]_vars

\* the scalar values an entity carries, at the top or inside an object
InputValues(raw) ==
    ({raw.id, raw.title, raw.brand_id, raw.brand_title, raw.size_id, raw.size_title,
      raw.status_id, raw.is_hidden}
     \cup UNION {{o.v, o.id, o.title, o.amount, o.currency_code} :
                   o \in {raw.price, raw.brand_dto, raw.brand, raw.size, raw.status}})
    \ {Absent}

Normalized == outp # NoCall /\ outp.fn = "_normalize_ssr_item"

\* C18 (as claimed): no output field is None, and every output field holds a
\* value the input entity carries, or, for status_id when the entity gives
\* the condition as a label, an id of the label table.
C18_NothingSynthesized ==
    Normalized =>
        \A k \in DOMAIN outp.out :
            /\ outp.out[k] # "None"
            /\ outp.out[k] # Absent =>
                  \/ outp.out[k] \in InputValues(inp.raw)
                  \/ /\ k = "status_id"
                     /\ inp.raw.status.kind = "str"
                     /\ outp.out[k] \in {"1", "2", "3", "4", "5", "6"}

\* C19 (as claimed): with a flat title and a nested object's title both
\* present (brand, size) the output is the nested title; with a direct id and
\* a nested object's id both present the output is the direct id.
C19_NestedLabelDirectId ==
    Normalized =>
        LET raw == inp.raw
            out == outp.out
        IN /\ (raw.brand_title # Absent /\ raw.brand.kind = "dict" /\ raw.brand.title # Absent)
                 => out.brand_title = raw.brand.title
           /\ (raw.size_title # Absent /\ raw.size.kind = "dict" /\ raw.size.title # Absent)
                 => out.size_title = raw.size.title
           /\ (Truthy(raw.brand_id) /\ raw.brand.kind = "dict" /\ raw.brand.id # Absent)
                 => out.brand_id = raw.brand_id
           /\ (Truthy(raw.size_id) /\ raw.size.kind = "dict" /\ raw.size.id # Absent)
                 => out.size_id = raw.size_id
           /\ (Truthy(raw.status_id) /\ raw.status.kind = "dict" /\ raw.status.id # Absent)
                 => out.status_id = raw.status_id

\* ------------------------------------------------------------------ graph extraction
\* A JSON value is V(t, x): "int" with its number, "str" with its text,
\* "bool" with TRUE or FALSE, "float" with its digits, "null", "list" with
\* the sequence of its elements, "dict" with the sequence
\* of its <<key, value>> entries in insertion order. A Python exception
\* leaving a function is V("raise", its class). A Python list index i is
\* position i + 1 of the sequence.

V(t, x) == [t |-> t, x |-> x]
None == V("null", 0)

\* depth > 40 in _resolve_nuxt_node
RESOLVE_MAX_DEPTH == 40
\* depth > 25 in _find_item_in_data
FIND_MAX_DEPTH == 25

\* the exception a function's sub-results carry, if any of them carries one
FirstRaise(results, otherwise) ==
    IF \E j \in 1..Len(results) : results[j].t = "raise"
    THEN results[CHOOSE j \in 1..Len(results) :
                    /\ results[j].t = "raise"
                    /\ \A i \in 1..(j - 1) : results[i].t # "raise"]
    ELSE otherwise

\* mutant of the depth test: no depth stops the recursion
DepthExceeded_Never(depth) == FALSE

\* depth > 40, the first test of _resolve_nuxt_node
DepthExceeded(depth) == depth > RESOLVE_MAX_DEPTH

\* Resolution is followed one depth at a time, from the deepest calls up:
\* below[i + 1] is what _resolve_nuxt_node(arr, i, depth + 1) returns, and
\* the results at depth are computed from it. The deepest calls followed are
\* those at RESOLVE_MAX_DEPTH + 1, which the depth test answers with None; a
\* call there that the test does not stop recurses on to Python's limit.
DeepestResults(arr) ==
    [p \in 1..Len(arr) |->
        IF DepthExceeded(RESOLVE_MAX_DEPTH + 1) THEN None ELSE V("raise", "RecursionError")]

\* isinstance(v, int): Python's bool is a subclass of int
IsInt(v) == v.t \in {"int", "bool"}

\* the list index a number stands for: True is 1 and False is 0
IndexOf(v) == IF v.t = "bool" THEN (IF v.x THEN 1 ELSE 0) ELSE v.x

\* _resolve_nuxt_node(arr, v, depth) for an operand v of a node, up to the
\* lookup of arr[idx]: `idx < 0` raises TypeError for a string or null, and
\* arr[idx] for a float
ResolveOperand(v, depth, below) ==
    IF DepthExceeded(depth) THEN None
    ELSE IF ~IsInt(v) THEN V("raise", "TypeError")
    ELSE IF IndexOf(v) < 0 \/ IndexOf(v) >= Len(below) THEN None
    ELSE below[IndexOf(v) + 1]

\* _resolve_nuxt_node from `node = arr[idx]` on, for a call at depth
ResolveNode(node, depth, below) ==
    LET Sub(v) == ResolveOperand(v, depth + 1, below)
        SubIfInt(v) == IF IsInt(v) THEN Sub(v) ELSE v
    IN IF node.t = "dict"
       THEN LET kids == [j \in 1..Len(node.x) |-> SubIfInt(node.x[j][2])]
            IN FirstRaise(kids, V("dict", [j \in 1..Len(node.x) |-> <<node.x[j][1], kids[j]>>]))
       ELSE IF node.t = "list"
       THEN IF node.x = <<>> THEN V("list", <<>>)
            ELSE IF node.x[1].t = "str" /\ node.x[1].x \in
                       {"Ref", "EmptyRef", "EmptyShallowRef", "ShallowReactive", "Reactive"}
            THEN (IF Len(node.x) > 1 THEN Sub(node.x[2]) ELSE None)
            ELSE IF node.x[1] = V("str", "Set")
            THEN LET kids == [j \in 1..(Len(node.x) - 1) |-> Sub(node.x[j + 1])]
                 IN FirstRaise(kids, V("list", kids))
            ELSE IF node.x[1] = V("str", "null")
            \* range(1, len(node) - 1, 2): k = node[i], v = node[i + 1];
            \* result[k] needs a hashable k
            THEN LET n == (Len(node.x) - 1) \div 2
                     kids == [j \in 1..n |-> SubIfInt(node.x[2 * j + 1])]
                     keys == [j \in 1..n |->
                                IF node.x[2 * j].t \in {"list", "dict"}
                                THEN V("raise", "TypeError") ELSE node.x[2 * j]]
                 IN FirstRaise([j \in 1..(2 * n) |->
                                   IF j % 2 = 1 THEN keys[(j + 1) \div 2] ELSE kids[j \div 2]],
                               V("dict", [j \in 1..n |-> <<keys[j].x, kids[j]>>]))
            ELSE LET kids == [j \in 1..Len(node.x) |-> SubIfInt(node.x[j])]
                 IN FirstRaise(kids, V("list", kids))
       ELSE node

\* what _resolve_nuxt_node(arr, i, depth) returns for every index i
ResultsAt(arr, depth, below) ==
    [p \in 1..Len(arr) |-> ResolveNode(arr[p], depth, below)]

\* the tests of _parse_nuxt_payload before it calls _resolve_nuxt_node:
\* raw_json is text that json.loads rejects (t = "text") or the value decoded
HasNuxtHeader(raw_json) ==
    /\ raw_json.t = "list"
    /\ Len(raw_json.x) > 1
    /\ raw_json.x[1].t = "list"
    /\ Len(raw_json.x[1].x) >= 2
    /\ raw_json.x[1].x[1] \in {V("str", "Reactive"), V("str", "ShallowReactive")}

\* bool(v) of a JSON value
JsonTruthy(v) ==
    /\ v.t \notin {"null", "raise"}
    /\ v.t \in {"list", "dict"} => v.x # <<>>
    /\ v.t = "int" => v.x # 0
    /\ v.t = "bool" => v.x
    /\ v.t = "float" => v.x # "0.0"
    /\ v.t = "str" => v.x # ""

\* the values a dict or list holds, in order
Children(v) ==
    IF v.t = "dict" THEN [j \in 1..Len(v.x) |-> v.x[j][2]]
    ELSE IF v.t = "list" THEN v.x ELSE <<>>

\* data.get("id") == item_id and ("title" in data or "description" in data)
IsTargetItem(data, item_id) ==
    /\ data.t = "dict"
    /\ DictGet(data.x, "id", None) = V("int", item_id)
    /\ \E j \in 1..Len(data.x) : data.x[j][1] \in {"title", "description"}

\* the values one level below those of `nodes` that lie k levels down, each
\* with the path of child positions that leads to it
Kids(nodes, k) ==
    UNION {{<<Append(n[1], j), Children(n[2])[j]>> : j \in 1..Len(Children(n[2]))} :
              n \in {m \in nodes : Len(m[1]) = k}}

RECURSIVE Walk(_, _)
\* `nodes` and everything below its values k levels down
Walk(nodes, k) ==
    LET next == nodes \cup Kids(nodes, k)
    IN IF next = nodes THEN nodes ELSE Walk(next, k + 1)

\* every value of a nested structure, as <<path, value>>
Nodes(v) == Walk({<< <<>>, v >>}, 0)

\* the paths to the values `depth` levels down
PathsAt(data, depth) == {n[1] : n \in {m \in Nodes(data) : Len(m[1]) = depth}}

\* the value a path leads to
At(data, p) == (CHOOSE n \in Nodes(data) : n[1] = p)[2]

\* mutant of _find_item_in_data: the id alone makes a match
FindItemInData_IdOnly(data, item_id, depth, found) ==
    IF depth > FIND_MAX_DEPTH THEN None
    ELSE IF data.t = "dict" /\ DictGet(data.x, "id", None) = V("int", item_id) THEN data
    ELSE IF \E j \in 1..Len(found) : found[j] # None
    THEN found[CHOOSE j \in 1..Len(found) :
                  found[j] # None /\ \A i \in 1..(j - 1) : found[i] = None]
    ELSE None

\* _find_item_in_data(data, item_id, depth), where found[j] is what the call
\* on the j-th value of data returns
FindItemInData(data, item_id, depth, found) ==
    IF depth > FIND_MAX_DEPTH THEN None
    ELSE IF IsTargetItem(data, item_id) THEN data
    ELSE IF \E j \in 1..Len(found) : found[j] # None
    THEN found[CHOOSE j \in 1..Len(found) :
                  found[j] # None /\ \A i \in 1..(j - 1) : found[i] = None]
    ELSE None

\* what the calls of _find_item_in_data at `depth` return, by the path to
\* their argument, given the same for the calls one level down
FoundAt(data, item_id, depth, below) ==
    [p \in PathsAt(data, depth) |->
        FindItemInData(At(data, p), item_id, depth,
                       IF depth > FIND_MAX_DEPTH THEN <<>>
                       ELSE [j \in 1..Len(Children(At(data, p))) |-> below[Append(p, j)]])]

\* _extract_item_from_html(html, item_id) once strategy 1 has `data` (None
\* when the page has no __NUXT_DATA__ script) and, for a truthy data, what
\* _find_item_in_data(data, item_id) found: that item, else the JSON-LD
\* Product block (_schema_org_to_item); an exception of strategy 1 leaves
\* the function
ExtractItemFromHtml(data, html, item_id, found) ==
    LET item == IF JsonTruthy(data) THEN found ELSE None
    IN IF data.t = "raise" THEN data
       ELSE IF item # None THEN item
       ELSE IF html.ld = "product"
       THEN V("dict", << <<"id", V("int", item_id)>>, <<"title", V("str", "name")>> >>)
       ELSE None

\* a dict node of the payload: its values are indexes into the array
Node(entries) == V("dict", [j \in 1..Len(entries) |-> <<entries[j][1], V("int", entries[j][2])>>])
\* a list node of the payload
Marker(tag, operands) == V("list", <<V("str", tag)>> \o operands)

\* the node at index 1, the root of the graph
NuxtRoots ==
    {Node(<< <<"item", 2>> >>),
     Node(<< <<"id", 3>>, <<"title", 4>> >>),
     Node(<< <<"id", 3>>, <<"next", 2>> >>),
     Node(<< <<"sub", 2>>, <<"id", 3>>, <<"title", 4>> >>),
     Node(<< <<"self", 1>> >>),
     Marker("Ref", <<V("int", 2)>>),
     Marker("Ref", <<V("str", "x")>>),
     Marker("Set", <<V("int", 2), V("int", 4)>>),
     Marker("null", <<V("str", "id"), V("int", 3), V("str", "title"), V("int", 4)>>),
     V("list", <<V("int", 2), V("int", 4)>>),
     V("dict", << <<"id", V("int", 3)>>, <<"title", V("str", "coat")>>,
                  <<"is_hidden", V("bool", FALSE)>>, <<"price", V("float", "1.5")>>,
                  <<"brand", None>> >>),
     V("dict", << <<"title", V("str", "coat")>>, <<"is_closed", V("bool", TRUE)>> >>)}

\* the node at index 2
NuxtMids ==
    {Node(<< <<"id", 3>>, <<"title", 4>> >>),
     Node(<< <<"id", 3>>, <<"description", 4>> >>),
     Node(<< <<"id", 3>> >>),
     Node(<< <<"up", 1>> >>),
     Marker("Ref", <<V("int", 1)>>),
     Marker("Ref", <<V("int", 2)>>),
     Marker("Set", <<V("str", "x")>>),
     V("int", 7)}

\* [header, root, mid, 7, "coat"]
SmallPayload(tag, root, mid) ==
    V("list", <<Marker(tag, <<V("int", 1)>>), root, mid, V("int", 7), V("str", "coat")>>)

\* a payload without a cycle: the root's first entry opens a chain of
\* FIND_MAX_DEPTH links that ends in an item with a description, its second
\* entry is an item with a title
DeepPayload ==
    LET D == FIND_MAX_DEPTH
    IN V("list", [p \in 1..(D + 6) |->
          IF p = 1 THEN Marker("Reactive", <<V("int", 1)>>)
          ELSE IF p = 2 THEN Node(<< <<"deep", 2>>, <<"shallow", D + 3>> >>)
          ELSE IF p <= D + 2 THEN Node(<< <<"n", p>> >>)
          ELSE IF p = D + 3 THEN Node(<< <<"id", D + 4>>, <<"description", D + 5>> >>)
          ELSE IF p = D + 4 THEN Node(<< <<"id", D + 4>>, <<"title", D + 5>> >>)
          ELSE IF p = D + 5 THEN V("int", 7)
          ELSE V("str", "coat")])

\* what the __NUXT_DATA__ script of a page holds: no such script, text
\* that is not JSON, a JSON array
NuxtScripts ==
    {V("absent", 0), V("text", 0), DeepPayload, SmallPayload("Other", V("int", 7), V("int", 7))}
    \cup {SmallPayload("ShallowReactive", root, mid) : root \in NuxtRoots, mid \in NuxtMids}

\* pages, by their __NUXT_DATA__ script and their JSON-LD block
HtmlDocs == [nuxt : NuxtScripts, ld : {"none", "product"}]

InitExtract ==
    /\ IdleInit
    /\ inp \in [fn : {"_extract_item_from_html"}, html : HtmlDocs, item_id : {7, 8}]
    /\ outp = NoCall

\* data = _parse_nuxt_payload(raw.strip()), to its first _resolve_nuxt_node
\* call or to its early return
ParsePayload ==
    /\ inp.fn = "_extract_item_from_html"
    /\ outp = NoCall
    /\ outp' = IF HasNuxtHeader(inp.html.nuxt)
               THEN [fn |-> "_resolve_nuxt_node", depth |-> RESOLVE_MAX_DEPTH + 1,
                     table |-> DeepestResults(inp.html.nuxt.x), data |-> None]
               ELSE [fn |-> "_parse_nuxt_payload", depth |-> 0, table |-> <<>>, data |-> None]
    /\ UNCHANGED <<poolVars, seqVars, concVars, relistVars, inp>>

\* the calls of _resolve_nuxt_node one depth up; at depth 0 the call on
\* index 1 is the one _parse_nuxt_payload returns
ResolveLevel ==
    /\ outp # NoCall
    /\ outp.fn = "_resolve_nuxt_node"
    /\ LET table == ResultsAt(inp.html.nuxt.x, outp.depth - 1, outp.table)
       IN outp' = [fn |-> IF outp.depth = 1 THEN "_parse_nuxt_payload" ELSE "_resolve_nuxt_node",
                   depth |-> outp.depth - 1, table |-> table,
                   data |-> IF outp.depth = 1 THEN table[2] ELSE None]
    /\ UNCHANGED <<poolVars, seqVars, concVars, relistVars, inp>>

\* item = _find_item_in_data(data, item_id) for a truthy data: the calls at
\* the depth where the search gives up
StartSearch ==
    /\ outp # NoCall
    /\ outp.fn = "_parse_nuxt_payload"
    /\ JsonTruthy(outp.data)
    /\ outp' = [fn |-> "_find_item_in_data", depth |-> FIND_MAX_DEPTH + 1,
                table |-> FoundAt(outp.data, inp.item_id, FIND_MAX_DEPTH + 1, <<>>),
                data |-> outp.data]
    /\ UNCHANGED <<poolVars, seqVars, concVars, relistVars, inp>>

\* the calls of _find_item_in_data one depth up; the call at depth 0 is the
\* one _extract_item_from_html made
SearchLevel ==
    /\ outp # NoCall
    /\ outp.fn = "_find_item_in_data"
    /\ outp.depth > 0
    /\ outp' = [outp EXCEPT !.depth = outp.depth - 1,
                            !.table = FoundAt(outp.data, inp.item_id, outp.depth - 1, outp.table)]
    /\ UNCHANGED <<poolVars, seqVars, concVars, relistVars, inp>>

\* the rest of _extract_item_from_html, to its return or to the exception
\* that leaves it
ExtractItem ==
    /\ outp # NoCall
    /\ \/ outp.fn = "_parse_nuxt_payload" /\ ~JsonTruthy(outp.data)
       \/ outp.fn = "_find_item_in_data" /\ outp.depth = 0
    /\ outp' = [fn |-> "_extract_item_from_html", depth |-> 0, table |-> <<>>,
                data |-> outp.data,
                item |-> ExtractItemFromHtml(outp.data, inp.html, inp.item_id,
                            IF outp.fn = "_find_item_in_data" THEN outp.table[<<>>] ELSE None)]
    /\ UNCHANGED <<poolVars, seqVars, concVars, relistVars, inp>>

SpecExtract ==
    InitExtract /\ [][ParsePayload \/ ResolveLevel \/ StartSearch \/ SearchLevel \/ ExtractItem]_vars

Extracted == outp # NoCall /\ outp.fn = "_extract_item_from_html"

\* C27 (as claimed): the dict a call of _resolve_nuxt_node returns for a dict
\* node holds, under each key whose value in the node is not an integer (a
\* string, a boolean, null, a float), that same value.
C27_LiteralsKept ==
    (outp # NoCall /\ outp.fn \in {"_resolve_nuxt_node", "_parse_nuxt_payload"}) =>
        \A p \in 1..Len(outp.table) :
            LET node == inp.html.nuxt.x[p]
                result == outp.table[p]
            IN (node.t = "dict" /\ result.t = "dict") =>
                   \A j \in 1..Len(node.x) :
                       node.x[j][2].t # "int" =>
                           /\ result.x[j][2].t = node.x[j][2].t
                           /\ result.x[j][2] = node.x[j][2]

\* C15 (as claimed): whatever the page holds, extraction ends with an entity
\* or with None, never with an exception.
C15_ExtractNeverRaises ==
    Extracted => outp.item.t \in {"dict", "null"}

\* a dict that holds item_id under "id" and has a "title" or a "description" key
HoldsItem(v, item_id) ==
    /\ v.t = "dict"
    /\ \E j \in 1..Len(v.x) : (v.x[j][1] = "id" /\ v.x[j][2] = V("int", item_id))
    /\ \E k \in 1..Len(v.x) : v.x[k][1] \in {"title", "description"}

\* how many containers deep a value goes
Nesting(v) ==
    LET containers == {n \in Nodes(v) : n[2].t \in {"dict", "list"}}
    IN IF containers = {} THEN 0
       ELSE 1 + Len((CHOOSE n \in containers : \A m \in containers : Len(m[1]) <= Len(n[1]))[1])

\* C16: resolution of a payload ends, whatever its nodes reference: the calls
\* at depths 0..40 give at most 41 containers one inside the other, the
\* call below them gives None, and no RecursionError occurs; and extraction
\* from a page whose resolved payload has no dict with the target id and a
\* title or description (and that has no JSON-LD Product) gives None unless
\* resolution raised.
C16_CyclesTerminate ==
    /\ (outp # NoCall /\ outp.fn \in {"_parse_nuxt_payload", "_extract_item_from_html"})
          => /\ outp.data # V("raise", "RecursionError")
             /\ Nesting(outp.data) <= 41
    /\ ( /\ Extracted
         /\ HasNuxtHeader(inp.html.nuxt)
         /\ \A n \in Nodes(outp.data) : ~HoldsItem(n[2], inp.item_id)
         /\ inp.html.ld = "none"
         /\ outp.data.t # "raise" )
       => outp.item = None

\* a root that references itself resolved to 41 dicts, the innermost holding
\* None, and extraction gave None
C16_Witness ==
    /\ Extracted
    /\ HasNuxtHeader(inp.html.nuxt)
    /\ inp.html.nuxt.x[2] = Node(<< <<"self", 1>> >>)
    /\ inp.html.ld = "none"
    /\ Nesting(outp.data) = 41
    /\ outp.item = None

\* path p comes before path q in depth-first order: p leads to an ancestor
\* of q's value, or branches off to an earlier child
Precedes(p, q) ==
    \/ Len(p) < Len(q) /\ \A i \in 1..Len(p) : p[i] = q[i]
    \/ \E i \in 1..Len(p) : /\ i <= Len(q)
                             /\ p[i] < q[i]
                             /\ \A k \in 1..(i - 1) : p[k] = q[k]

\* the first dict, in depth-first order and no deeper than limit, that holds
\* the item; None without one
FirstMatch(v, item_id, limit) ==
    LET hits == {n \in Nodes(v) : Len(n[1]) <= limit /\ HoldsItem(n[2], item_id)}
    IN IF hits = {} THEN None
       ELSE (CHOOSE n \in hits : \A m \in hits : m[1] = n[1] \/ Precedes(n[1], m[1]))[2]

\* the graph search ran: the payload resolved to a truthy value and the page
\* has no JSON-LD Product to fall back on
GraphSearched ==
    /\ Extracted
    /\ JsonTruthy(outp.data)
    /\ inp.html.ld = "none"

\* what C17 says of any entity returned: a dict with the requested id and a
\* content key
C17_ReturnedIsTarget ==
    (GraphSearched /\ outp.item # None) =>
        HoldsItem(outp.item, inp.item_id)

\* C17 (as claimed): the entity returned has the requested id and a title
\* or description, and it is the first such dict of the resolved graph in
\* depth-first order, however deep.
C17_FirstMatchAnyDepth ==
    /\ C17_ReturnedIsTarget
    /\ GraphSearched => outp.item = FirstMatch(outp.data, inp.item_id, RESOLVE_MAX_DEPTH + 1)

\* C17 (amended): the entity returned has the requested id and a title or
\* description, and it is the first such dict in depth-first order among the
\* dicts at most FIND_MAX_DEPTH levels below the root; deeper dicts are not
\* looked at.
C17_FirstMatchWithinDepth ==
    /\ C17_ReturnedIsTarget
    /\ GraphSearched => outp.item = FirstMatch(outp.data, inp.item_id, FIND_MAX_DEPTH)

\* the item 26 levels down the first branch was passed over and the item
\* with a title in the second branch returned
C17_Witness ==
    /\ GraphSearched
    /\ inp.html.nuxt = DeepPayload
    /\ inp.item_id = 7
    /\ outp.item = V("dict", << <<"id", V("int", 7)>>, <<"title", V("str", "coat")>> >>)

\* ------------------------------------------------------------------ text jitter
\* A text is the sequence of its characters; "a" stands for any character
\* that is not whitespace to str.isspace.

\* characters of one text
MaxText == 3
\* the relist counts a text is jittered with
MaxCount == 6

THIN == "u2009"
HAIR == "u200A"
ZERO_WIDTH == "u200B"

Chars == {"a", " ", THIN, HAIR, ZERO_WIDTH}
Texts == SeqsUpTo(Chars, MaxText)

\* _TEXT_JITTER_VARIANTS
TEXT_JITTER_VARIANTS ==
    << <<THIN>>, <<HAIR>>, <<ZERO_WIDTH>>, <<THIN, ZERO_WIDTH>>, <<HAIR, ZERO_WIDTH>> >>

\* str.isspace of one character: U+2009 and U+200A are space separators
\* (Zs), U+200B is a format character (Cf)
IsSpace(ch) == ch \in {" ", THIN, HAIR}

RECURSIVE RStrip(_)
\* text.rstrip()
RStrip(text) ==
    IF text # <<>> /\ IsSpace(text[Len(text)])
    THEN RStrip(SubSeq(text, 1, Len(text) - 1))
    ELSE text

\* mutant of jitter_text: the variant is chosen by the count's parity
JitterText_Parity(text, relist_count) ==
    RStrip(text) \o TEXT_JITTER_VARIANTS[(relist_count % 2) + 1]

\* jitter_text(text, relist_count)
JitterText(text, relist_count) ==
    RStrip(text) \o TEXT_JITTER_VARIANTS[(relist_count % Len(TEXT_JITTER_VARIANTS)) + 1]

InitJitter ==
    /\ IdleInit
    /\ inp \in [fn : {"jitter_text"}, text : Texts, count : 0..MaxCount, next : 0..MaxCount]
    /\ outp = NoCall

\* a relist jitters the master text with its count
JitterOnce ==
    /\ inp.fn = "jitter_text"
    /\ outp = NoCall
    /\ outp' = [fn |-> "jitter_text", relists |-> 1,
                text |-> JitterText(inp.text, inp.count)]
    /\ UNCHANGED <<poolVars, seqVars, concVars, relistVars, inp>>

\* the next relist is given the text the last one published
JitterAgain ==
    /\ outp # NoCall
    /\ outp.fn = "jitter_text"
    /\ outp.relists = 1
    /\ outp' = [fn |-> "jitter_text", relists |-> 2,
                text |-> JitterText(outp.text, inp.next)]
    /\ UNCHANGED <<poolVars, seqVars, concVars, relistVars, inp>>

SpecJitter == InitJitter /\ [][JitterOnce \/ JitterAgain]_vars

\* C21: jitter_text(s, c) differs from jitter_text(s, c + 1), and counts
\* that are equal modulo the number of variants give the same text: the
\* stripped input followed by the variant at that remainder.
C21_JitterCycles ==
    (outp # NoCall /\ outp.fn = "jitter_text" /\ outp.relists = 1) =>
        /\ outp.text # JitterText(inp.text, inp.count + 1)
        /\ outp.text = JitterText(inp.text, inp.count + Len(TEXT_JITTER_VARIANTS))
        /\ \E k \in 1..Len(TEXT_JITTER_VARIANTS) :
              /\ k = (inp.count % Len(TEXT_JITTER_VARIANTS)) + 1
              /\ outp.text = RStrip(inp.text) \o TEXT_JITTER_VARIANTS[k]

\* "a " jittered with the largest count is "a" and that count's variant
C21_Witness ==
    /\ outp # NoCall
    /\ outp.fn = "jitter_text"
    /\ outp.relists = 1
    /\ inp.text = <<"a", " ">>
    /\ inp.count = MaxCount
    /\ outp.text = <<"a">> \o TEXT_JITTER_VARIANTS[(MaxCount % 5) + 1]

\* C29 (as claimed): jittering a jittered text gives what jittering the
\* original text gives: jitter_text(jitter_text(s, c1), c2) = jitter_text(s, c2).
C29_NoAccumulation ==
    (outp # NoCall /\ outp.fn = "jitter_text" /\ outp.relists = 2) =>
        outp.text = JitterText(inp.text, inp.next)

\* ------------------------------------------------------------------ gateway
\* The handlers of server.py. A request is its handler, its X-Vinted-Cookie
\* header ("None" when absent), its url and page parameters, its JSON body and
\* what the marketplace would answer; body values are V(t, x) as above, with
\* V("absent", 0) for a key the body does not have.

Cookies == {"None", "", "c=1"}

\* `not x_vinted_cookie`
NotCookie(cookie) == cookie \in {"None", ""}

\* _error_response(code, message, status_code)
ErrorResponse(code, status_code) == [ok |-> FALSE, code |-> code, status |-> status_code]

\* return {"ok": True, "data": data}
OkResponse == [ok |-> TRUE, code |-> "OK", status |-> 200]

\* the framework's answer when an exception leaves a handler
Unhandled == [ok |-> FALSE, code |-> "Internal Server Error", status |-> 500]

\* the parameters in the signature of a client operation
Accepts(op) ==
    CASE op = "search" -> {"url", "cookie", "proxy", "page", "transport_mode"}
      [] op = "checkout_build" -> {"order_id", "cookie", "proxy", "transport_mode"}
      [] op = "relist_item" ->
            {"cookie", "old_item_id", "item_data", "image_bytes_list", "relist_count",
             "csrf_token", "anon_id", "proxy", "transport_mode"}

\* the keywords a handler calls its client operation with
Passes(op) ==
    CASE op = "search" -> {"url", "cookie", "proxy", "page", "transport_mode", "user_agent"}
      [] op = "checkout_build" ->
            {"order_id", "cookie", "proxy", "transport_mode", "user_agent"}
      [] op = "relist_item" ->
            {"cookie", "old_item_id", "item_data", "image_bytes_list", "relist_count",
             "csrf_token", "anon_id", "proxy", "transport_mode", "user_agent"}

\* how a call of a client operation ends: raised is "none" for a return, else
\* the exception's class, with the code and status_code of a VintedError; ran
\* says whether the operation sent a request
CallEnd(raised, code, status, ran) == [raised |-> raised, code |-> code, status |-> status, ran |-> ran]

\* the end of an operation whose request had the outcome out
EndOf(out) ==
    IF out.code = "OK" THEN CallEnd("none", "OK", 0, TRUE)
    ELSE CallEnd("VintedError", out.code, out.status, TRUE)

\* search(url, cookie, ...): _parse_catalog_url first, then the request
SearchEnd(url, resp) ==
    LET params == ParseCatalogUrl(url)
    IN IF params.raised = "INVALID_URL" THEN CallEnd("VintedError", "INVALID_URL", 0, FALSE)
       ELSE IF params.raised # "none" THEN CallEnd(params.raised, "", 0, FALSE)
       ELSE EndOf(OpOutcome("search", resp, NoProxy, NoMode))

\* op(**kwargs): Python binds the keywords to the parameters before the body
\* runs, and raises TypeError for a keyword the signature does not have
CallClient(op, kwargs, end) ==
    IF kwargs \subseteq Accepts(op) THEN end ELSE CallEnd("TypeError", "", 0, FALSE)

\* what a handler answers after its call: `except VintedError` with
\* `e.status_code or 500`, in /relist also `except Exception`
AfterCall(op, end, catchAll) ==
    [response |-> IF end.raised = "none" THEN OkResponse
                  ELSE IF end.raised = "VintedError"
                  THEN ErrorResponse(end.code, IF end.status = 0 THEN 500 ELSE end.status)
                  ELSE IF catchAll THEN ErrorResponse("RELIST_ERROR", 500)
                  ELSE Unhandled,
     called |-> <<op>>, ran |-> end.ran]

\* an answer given without a call of the client
Reply(response) == [response |-> response, called |-> <<>>, ran |-> FALSE]

\* base64.b64decode(b64), validate=False: characters outside the alphabet
\* are dropped before decoding, wrong padding raises, and so does a value
\* that is not text
B64Decode(b64) ==
    IF b64.t # "str" THEN V("raise", "TypeError")
    ELSE CASE b64.x = "aGk=" -> V("bytes", "hi")
           [] b64.x = "!!!!" -> V("bytes", "")
           [] OTHER -> V("raise", "binascii.Error")

\* GET /search
GatewaySearch(req) ==
    IF NotCookie(req.cookie) THEN Reply(ErrorResponse("MISSING_COOKIE", 400))
    ELSE AfterCall("search",
                   CallClient("search", Passes("search"), SearchEnd(req.url, req.resp)), FALSE)

\* POST /checkout/build
GatewayCheckoutBuild(req) ==
    LET order_id == req.body.order_id
    IN IF order_id.t \in {"absent", "null"} THEN Reply(ErrorResponse("INVALID_BODY", 400))
       ELSE IF order_id.t # "int" THEN Reply(ErrorResponse("INVALID_BODY", 400))
       ELSE IF NotCookie(req.cookie) THEN Reply(ErrorResponse("MISSING_COOKIE", 400))
       ELSE AfterCall("checkout_build",
                      CallClient("checkout_build", Passes("checkout_build"),
                                 EndOf(OpOutcome("checkout_build", req.resp, NoProxy, NoMode))),
                      FALSE)

\* POST /relist; the loop over body.get("image_bytes_b64", []) stands outside
\* the try blocks, so iterating a value that is not a list leaves the handler
GatewayRelist(req) ==
    LET images == req.body.image_bytes_b64
        listed == IF images.t = "absent" THEN <<>> ELSE images.x
        image_bytes_list == [j \in 1..Len(listed) |-> B64Decode(listed[j])]
    IN IF NotCookie(req.cookie) THEN Reply(ErrorResponse("MISSING_COOKIE", 400))
       ELSE IF req.body.old_item_id.t \in {"absent", "null"}
       THEN Reply(ErrorResponse("INVALID_BODY", 400))
       ELSE IF images.t \notin {"absent", "list"} THEN Reply(Unhandled)
       ELSE IF \E j \in 1..Len(listed) : image_bytes_list[j].t = "raise"
       THEN Reply(ErrorResponse("INVALID_BODY", 400))
       ELSE IF image_bytes_list = <<>> THEN Reply(ErrorResponse("INVALID_BODY", 400))
       ELSE AfterCall("relist_item",
                      CallClient("relist_item", Passes("relist_item"), EndOf(req.result)), TRUE)

\* a catalogue URL of the site, a URL of another host, a URL whose page is
\* not a number
GatewayUrls ==
    {[host |-> <<"www", ".", "vinted.co.uk">>,
      query |-> << <<"search_text", "foo">>, <<"order", "price_low_to_high">> >>],
     [host |-> <<"www", ".", "vinted.fr">>, query |-> <<>>],
     [host |-> <<"www", ".", "vinted.co.uk">>, query |-> << <<"page", "x">> >>]}

\* the marketplace answers 200 with JSON, or 403
GatewayResponses ==
    {[net |-> "ok", status |-> 200, ctype |-> "application/json", body |-> "json_no_id"],
     [net |-> "ok", status |-> 403, ctype |-> "text/html", body |-> "text"]}

\* image_bytes_b64 of a /relist body
ImageLists ==
    {V("absent", 0), None, V("list", <<>>),
     V("list", <<V("str", "aGk=")>>), V("list", <<V("str", "abc")>>),
     V("list", <<V("str", "!!!!")>>), V("list", <<V("int", 5)>>),
     V("list", <<V("str", "aGk="), V("str", "abc")>>)}

NoBody == [order_id |-> V("absent", 0), old_item_id |-> V("absent", 0),
           image_bytes_b64 |-> V("absent", 0)]

GatewayRequests ==
    [fn : {"gateway"}, handler : {"search"}, cookie : Cookies, url : GatewayUrls,
     page : Pages, body : {NoBody}, resp : GatewayResponses, result : {Ok}]
    \cup [fn : {"gateway"}, handler : {"checkout_build"}, cookie : Cookies,
          url : {[host |-> <<>>, query |-> <<>>]}, page : {1},
          body : {[NoBody EXCEPT !.order_id = o] :
                     o \in {V("absent", 0), None, V("str", "x"), V("int", 5)}},
          resp : GatewayResponses, result : {Ok}]
    \cup [fn : {"gateway"}, handler : {"relist"}, cookie : Cookies,
          url : {[host |-> <<>>, query |-> <<>>]}, page : {1},
          body : {[NoBody EXCEPT !.old_item_id = o, !.image_bytes_b64 = images] :
                     o \in {V("absent", 0), V("int", 1)}, images \in ImageLists},
          resp : {CHOOSE r \in GatewayResponses : r.status = 200},
          result : {Ok, Err("UPLOAD_FAILED", 0)}]

InitGateway ==
    /\ IdleInit
    /\ inp \in GatewayRequests
    /\ outp = NoCall

Served(answer) ==
    /\ outp = NoCall
    /\ outp' = [fn |-> "gateway", response |-> answer.response, called |-> answer.called,
                ran |-> answer.ran]
    /\ UNCHANGED <<poolVars, seqVars, concVars, relistVars, inp>>

ServeSearch == inp.fn = "gateway" /\ inp.handler = "search" /\ Served(GatewaySearch(inp))

ServeCheckoutBuild ==
    inp.fn = "gateway" /\ inp.handler = "checkout_build" /\ Served(GatewayCheckoutBuild(inp))

ServeRelist == inp.fn = "gateway" /\ inp.handler = "relist" /\ Served(GatewayRelist(inp))

SpecGateway == InitGateway /\ [][ServeSearch \/ ServeCheckoutBuild \/ ServeRelist]_vars

Answered == outp # NoCall /\ outp.fn = "gateway"

\* the text is base64
IsBase64(str) == str = "aGk="

\* the body's image list is a list, not empty, of base64 texts
ImagesDecodable(images) ==
    /\ images.t = "list"
    /\ images.x # <<>>
    /\ \A j \in 1..Len(images.x) : images.x[j].t = "str" /\ IsBase64(images.x[j].x)

\* C23 (as claimed): a request without a cookie is answered MISSING_COOKIE,
\* and a /relist request with a cookie but without old_item_id, or whose
\* image list is missing, empty or not base64, is answered INVALID_BODY; in
\* both cases no client operation is called and no request is sent.
C23_RejectedBeforeClient ==
    Answered =>
        /\ NotCookie(inp.cookie) =>
               outp = [fn |-> "gateway", response |-> ErrorResponse("MISSING_COOKIE", 400),
                       called |-> <<>>, ran |-> FALSE]
        /\ (/\ inp.handler = "relist"
            /\ ~NotCookie(inp.cookie)
            /\ \/ inp.body.old_item_id.t = "absent"
               \/ ~ImagesDecodable(inp.body.image_bytes_b64)) =>
               outp = [fn |-> "gateway", response |-> ErrorResponse("INVALID_BODY", 400),
                       called |-> <<>>, ran |-> FALSE]

\* C24 (as claimed): /search with a cookie, a catalogue URL of the site and
\* a marketplace that answers 200 with JSON is answered {ok: true, data}.
C24_SearchCompletes ==
    (/\ Answered
     /\ inp.handler = "search"
     /\ ~NotCookie(inp.cookie)
     /\ ParseCatalogUrl(inp.url).raised = "none"
     /\ inp.resp.status = 200 /\ IsJson(inp.resp.body)) =>
        outp.response = OkResponse

====
